---------------------------- MODULE Spec2Model ----------------------------
(***************************************************************************)
(* A model of the identity-card field extractor: the text utilities and   *)
(* parse_data of IDCardOCR (id_card_ocr.py), and the alias composition,   *)
(* the batch read loop and the review form of the web front end (app.py). *)
(*                                                                         *)
(* Text is a sequence of characters.  A character is a short ASCII token: *)
(* an ASCII character stands for itself; a precomposed Vietnamese letter  *)
(* is its base letter followed by its marks in canonical order, written   *)
(*     '  acute      !  grave     ?  hook above    ~  tilde                *)
(*     .  dot below  ^  circumflex  (  breve       *  horn                 *)
(* so "e^" is U+00EA, "o^'" is U+1ED1 and "u*~" is U+1EEF; "d-" and "D-"  *)
(* are the barred d U+0111 and U+0110, which have no decomposition; a     *)
(* combining mark on its own is "U+0301"; "TAB" is U+0009 and "NBSP" is   *)
(* U+00A0.                                                                 *)
(***************************************************************************)
EXTENDS Integers, Sequences, FiniteSets, TLC

VARIABLES pc, arg, ret, ret2, observations, merged, text_list, data,
          uploaded_images, idx, results, batch_results, stdout, trigger, archive, runs

\* the state of the web front end: the uploaded files, the loop index, the
\* list the read loop builds, st.session_state["batch_results"], what was
\* printed, the interaction that started the script run, the entries of the
\* result archive and the number of script runs
app_state == <<uploaded_images, idx, results, batch_results, stdout, trigger, archive, runs>>

\* the state of the text pipeline
ocr_state == <<arg, ret, ret2, observations, merged, text_list, data>>

vars == <<pc, arg, ret, ret2, observations, merged, text_list, data, app_state>>

----------------------------------------------------------------------------
(* Unicode data (unicodedata, str.lower, str.isspace, re's \d \w \s) for   *)
(* the characters of the model.                                            *)

Alphabet ==
    { " ", ",", "-", ".", "/", "0", "1", "2", "3", "4", "5", "6", "7", "8",
      "9", ":", ";", "A", "A!", "A'", "A(", "A(~", "A.", "A.(", "A.^", "A?",
      "A^", "A~", "B", "C", "D", "D-", "E", "E.^", "E^", "E^'", "E^~", "F",
      "G", "H", "I", "I'", "I.", "I~", "J", "K", "L", "M", "N", "NBSP", "O",
      "O!", "O'", "O*", "O*!", "O*'", "O.", "O.^", "O^", "O^!", "O^'", "P",
      "Q", "R", "S", "T", "TAB", "U", "U'", "U*", "U*.", "U*~", "U+0300",
      "U+0301", "U+0302", "U+0303", "U+0306", "U+0309", "U+031B", "U+0323",
      "U?", "V", "W", "X", "Y", "Y!", "Z", "_", "a", "a!", "a'", "a(", "a(~",
      "a.", "a.(", "a.^", "a?", "a^", "a~", "b", "c", "d", "d-", "e", "e.^",
      "e^", "e^'", "e^~", "f", "g", "h", "i", "i'", "i.", "i~", "j", "k",
      "l", "m", "n", "o", "o!", "o'", "o*", "o*!", "o*'", "o.", "o.^", "o^",
      "o^!", "o^'", "p", "q", "r", "s", "t", "u", "u'", "u*", "u*.", "u*~",
      "u?", "v", "w", "x", "y", "y!", "z" }

CombiningChars ==
    { "U+0300", "U+0301", "U+0302", "U+0303", "U+0306", "U+0309", "U+031B",
      "U+0323" }

SpaceChars ==
    { " ", "NBSP", "TAB" }

DigitChars ==
    { "0", "1", "2", "3", "4", "5", "6", "7", "8", "9" }

AlnumChars ==
    { "0", "1", "2", "3", "4", "5", "6", "7", "8", "9", "A", "A!", "A'",
      "A(", "A(~", "A.", "A.(", "A.^", "A?", "A^", "A~", "B", "C", "D", "D-",
      "E", "E.^", "E^", "E^'", "E^~", "F", "G", "H", "I", "I'", "I.", "I~",
      "J", "K", "L", "M", "N", "O", "O!", "O'", "O*", "O*!", "O*'", "O.",
      "O.^", "O^", "O^!", "O^'", "P", "Q", "R", "S", "T", "U", "U'", "U*",
      "U*.", "U*~", "U?", "V", "W", "X", "Y", "Y!", "Z", "a", "a!", "a'",
      "a(", "a(~", "a.", "a.(", "a.^", "a?", "a^", "a~", "b", "c", "d", "d-",
      "e", "e.^", "e^", "e^'", "e^~", "f", "g", "h", "i", "i'", "i.", "i~",
      "j", "k", "l", "m", "n", "o", "o!", "o'", "o*", "o*!", "o*'", "o.",
      "o.^", "o^", "o^!", "o^'", "p", "q", "r", "s", "t", "u", "u'", "u*",
      "u*.", "u*~", "u?", "v", "w", "x", "y", "y!", "z" }

UpperRangeChars ==
    { "A", "A!", "A'", "A(", "A(~", "A.", "A.(", "A.^", "A?", "A^", "A~",
      "B", "C", "D", "D-", "E", "E.^", "E^", "E^'", "E^~", "F", "G", "H",
      "I", "I'", "I.", "I~", "J", "K", "L", "M", "N", "O", "O!", "O'", "O*",
      "O*!", "O*'", "O.", "O.^", "O^", "O^!", "O^'", "P", "Q", "R", "S", "T",
      "U", "U'", "U*", "U*.", "U*~", "U+0300", "U+0301", "U+0302", "U+0303",
      "U+0306", "U+0309", "U+031B", "U+0323", "U?", "V", "W", "X", "Y", "Y!",
      "Z", "a!", "a'", "a(", "a(~", "a.", "a.(", "a.^", "a?", "a^", "a~",
      "d-", "e.^", "e^", "e^'", "e^~", "i'", "i.", "i~", "o!", "o'", "o*",
      "o*!", "o*'", "o.", "o.^", "o^", "o^!", "o^'", "u'", "u*", "u*.",
      "u*~", "u?", "y!" }

AsciiLowerChars ==
    { "a", "b", "c", "d", "e", "f", "g", "h", "i", "j", "k", "l", "m", "n",
      "o", "p", "q", "r", "s", "t", "u", "v", "w", "x", "y", "z" }

Decomposition ==
    ("A!" :> <<"A", "U+0300">>) @@ ("A'" :> <<"A", "U+0301">>) @@
    ("A(" :> <<"A", "U+0306">>) @@ ("A(~" :> <<"A", "U+0306", "U+0303">>) @@
    ("A." :> <<"A", "U+0323">>) @@ ("A.(" :> <<"A", "U+0323", "U+0306">>) @@
    ("A.^" :> <<"A", "U+0323", "U+0302">>) @@ ("A?" :> <<"A", "U+0309">>) @@
    ("A^" :> <<"A", "U+0302">>) @@ ("A~" :> <<"A", "U+0303">>) @@
    ("E.^" :> <<"E", "U+0323", "U+0302">>) @@ ("E^" :> <<"E", "U+0302">>) @@
    ("E^'" :> <<"E", "U+0302", "U+0301">>) @@
    ("E^~" :> <<"E", "U+0302", "U+0303">>) @@ ("I'" :> <<"I", "U+0301">>) @@
    ("I." :> <<"I", "U+0323">>) @@ ("I~" :> <<"I", "U+0303">>) @@
    ("NBSP" :> <<" ">>) @@ ("O!" :> <<"O", "U+0300">>) @@
    ("O'" :> <<"O", "U+0301">>) @@ ("O*" :> <<"O", "U+031B">>) @@
    ("O*!" :> <<"O", "U+031B", "U+0300">>) @@
    ("O*'" :> <<"O", "U+031B", "U+0301">>) @@ ("O." :> <<"O", "U+0323">>) @@
    ("O.^" :> <<"O", "U+0323", "U+0302">>) @@ ("O^" :> <<"O", "U+0302">>) @@
    ("O^!" :> <<"O", "U+0302", "U+0300">>) @@
    ("O^'" :> <<"O", "U+0302", "U+0301">>) @@ ("U'" :> <<"U", "U+0301">>) @@
    ("U*" :> <<"U", "U+031B">>) @@ ("U*." :> <<"U", "U+031B", "U+0323">>) @@
    ("U*~" :> <<"U", "U+031B", "U+0303">>) @@ ("U?" :> <<"U", "U+0309">>) @@
    ("Y!" :> <<"Y", "U+0300">>) @@ ("a!" :> <<"a", "U+0300">>) @@
    ("a'" :> <<"a", "U+0301">>) @@ ("a(" :> <<"a", "U+0306">>) @@
    ("a(~" :> <<"a", "U+0306", "U+0303">>) @@ ("a." :> <<"a", "U+0323">>) @@
    ("a.(" :> <<"a", "U+0323", "U+0306">>) @@
    ("a.^" :> <<"a", "U+0323", "U+0302">>) @@ ("a?" :> <<"a", "U+0309">>) @@
    ("a^" :> <<"a", "U+0302">>) @@ ("a~" :> <<"a", "U+0303">>) @@
    ("e.^" :> <<"e", "U+0323", "U+0302">>) @@ ("e^" :> <<"e", "U+0302">>) @@
    ("e^'" :> <<"e", "U+0302", "U+0301">>) @@
    ("e^~" :> <<"e", "U+0302", "U+0303">>) @@ ("i'" :> <<"i", "U+0301">>) @@
    ("i." :> <<"i", "U+0323">>) @@ ("i~" :> <<"i", "U+0303">>) @@
    ("o!" :> <<"o", "U+0300">>) @@ ("o'" :> <<"o", "U+0301">>) @@
    ("o*" :> <<"o", "U+031B">>) @@ ("o*!" :> <<"o", "U+031B", "U+0300">>) @@
    ("o*'" :> <<"o", "U+031B", "U+0301">>) @@ ("o." :> <<"o", "U+0323">>) @@
    ("o.^" :> <<"o", "U+0323", "U+0302">>) @@ ("o^" :> <<"o", "U+0302">>) @@
    ("o^!" :> <<"o", "U+0302", "U+0300">>) @@
    ("o^'" :> <<"o", "U+0302", "U+0301">>) @@ ("u'" :> <<"u", "U+0301">>) @@
    ("u*" :> <<"u", "U+031B">>) @@ ("u*." :> <<"u", "U+031B", "U+0323">>) @@
    ("u*~" :> <<"u", "U+031B", "U+0303">>) @@ ("u?" :> <<"u", "U+0309">>) @@
    ("y!" :> <<"y", "U+0300">>)

LowerCase ==
    ("A" :> "a") @@ ("A!" :> "a!") @@ ("A'" :> "a'") @@ ("A(" :> "a(") @@
    ("A(~" :> "a(~") @@ ("A." :> "a.") @@ ("A.(" :> "a.(") @@
    ("A.^" :> "a.^") @@ ("A?" :> "a?") @@ ("A^" :> "a^") @@ ("A~" :> "a~") @@
    ("B" :> "b") @@ ("C" :> "c") @@ ("D" :> "d") @@ ("D-" :> "d-") @@
    ("E" :> "e") @@ ("E.^" :> "e.^") @@ ("E^" :> "e^") @@ ("E^'" :> "e^'") @@
    ("E^~" :> "e^~") @@ ("F" :> "f") @@ ("G" :> "g") @@ ("H" :> "h") @@
    ("I" :> "i") @@ ("I'" :> "i'") @@ ("I." :> "i.") @@ ("I~" :> "i~") @@
    ("J" :> "j") @@ ("K" :> "k") @@ ("L" :> "l") @@ ("M" :> "m") @@
    ("N" :> "n") @@ ("O" :> "o") @@ ("O!" :> "o!") @@ ("O'" :> "o'") @@
    ("O*" :> "o*") @@ ("O*!" :> "o*!") @@ ("O*'" :> "o*'") @@
    ("O." :> "o.") @@ ("O.^" :> "o.^") @@ ("O^" :> "o^") @@
    ("O^!" :> "o^!") @@ ("O^'" :> "o^'") @@ ("P" :> "p") @@ ("Q" :> "q") @@
    ("R" :> "r") @@ ("S" :> "s") @@ ("T" :> "t") @@ ("U" :> "u") @@
    ("U'" :> "u'") @@ ("U*" :> "u*") @@ ("U*." :> "u*.") @@
    ("U*~" :> "u*~") @@ ("U?" :> "u?") @@ ("V" :> "v") @@ ("W" :> "w") @@
    ("X" :> "x") @@ ("Y" :> "y") @@ ("Y!" :> "y!") @@ ("Z" :> "z")

UpperCase ==
    ("a" :> "A") @@ ("a!" :> "A!") @@ ("a'" :> "A'") @@ ("a(" :> "A(") @@
    ("a(~" :> "A(~") @@ ("a." :> "A.") @@ ("a.(" :> "A.(") @@
    ("a.^" :> "A.^") @@ ("a?" :> "A?") @@ ("a^" :> "A^") @@ ("a~" :> "A~") @@
    ("b" :> "B") @@ ("c" :> "C") @@ ("d" :> "D") @@ ("d-" :> "D-") @@
    ("e" :> "E") @@ ("e.^" :> "E.^") @@ ("e^" :> "E^") @@ ("e^'" :> "E^'") @@
    ("e^~" :> "E^~") @@ ("f" :> "F") @@ ("g" :> "G") @@ ("h" :> "H") @@
    ("i" :> "I") @@ ("i'" :> "I'") @@ ("i." :> "I.") @@ ("i~" :> "I~") @@
    ("j" :> "J") @@ ("k" :> "K") @@ ("l" :> "L") @@ ("m" :> "M") @@
    ("n" :> "N") @@ ("o" :> "O") @@ ("o!" :> "O!") @@ ("o'" :> "O'") @@
    ("o*" :> "O*") @@ ("o*!" :> "O*!") @@ ("o*'" :> "O*'") @@
    ("o." :> "O.") @@ ("o.^" :> "O.^") @@ ("o^" :> "O^") @@
    ("o^!" :> "O^!") @@ ("o^'" :> "O^'") @@ ("p" :> "P") @@ ("q" :> "Q") @@
    ("r" :> "R") @@ ("s" :> "S") @@ ("t" :> "T") @@ ("u" :> "U") @@
    ("u'" :> "U'") @@ ("u*" :> "U*") @@ ("u*." :> "U*.") @@
    ("u*~" :> "U*~") @@ ("u?" :> "U?") @@ ("v" :> "V") @@ ("w" :> "W") @@
    ("x" :> "X") @@ ("y" :> "Y") @@ ("y!" :> "Y!") @@ ("z" :> "Z")


----------------------------------------------------------------------------
(* Character classes and string primitives of Python's str and re.         *)

IsSpace(ch) == ch \in SpaceChars

IsDigit(ch) == ch \in DigitChars

IsWordChar(ch) == ch \in AlnumChars \/ ch = "_"

NFKD(ch) == IF ch \in DOMAIN Decomposition THEN Decomposition[ch] ELSE <<ch>>

Lower(ch) == IF ch \in DOMAIN LowerCase THEN LowerCase[ch] ELSE ch

Upper(ch) == IF ch \in DOMAIN UpperCase THEN UpperCase[ch] ELSE ch

Min(S) == CHOOSE x \in S : \A y \in S : x <= y

Max(S) == CHOOSE x \in S : \A y \in S : y <= x

\* the value of a set of one element: Only({e : x \in {v}}) is e with v for x,
\* as a local variable of the code holds a value that is computed once
Only(S) == CHOOSE x \in S : TRUE

RECURSIVE Flatten(_)
Flatten(ss) == IF ss = <<>> THEN <<>> ELSE Head(ss) \o Flatten(Tail(ss))

\* s.strip(chars), s.lstrip(chars) and s.rstrip(chars)
Strip(s, chars) ==
    LET keep == {i \in 1..Len(s) : s[i] \notin chars}
    IN  IF keep = {} THEN <<>> ELSE SubSeq(s, Min(keep), Max(keep))

LStrip(s, chars) ==
    LET keep == {i \in 1..Len(s) : s[i] \notin chars}
    IN  IF keep = {} THEN <<>> ELSE SubSeq(s, Min(keep), Len(s))

\* re.sub(r'\s+', ' ', s): every maximal run of whitespace becomes one space
CollapseWs(s) ==
    LET first(i) == ~IsSpace(s[i]) \/ i = 1 \/ ~IsSpace(s[i - 1])
        kept == SelectSeq([i \in 1..Len(s) |-> i], first)
    IN  [k \in 1..Len(kept) |-> IF IsSpace(s[kept[k]]) THEN " " ELSE s[kept[k]]]

\* sub occurs in s at position i (1-based)
MatchAt(sub, s, i) ==
    /\ i >= 1
    /\ i + Len(sub) - 1 <= Len(s)
    /\ \A k \in 1..Len(sub) : s[i + k - 1] = sub[k]

\* s.find(sub), 1-based, 0 when sub does not occur
Find(sub, s) ==
    LET hits == {i \in 1..(Len(s) - Len(sub) + 1) : MatchAt(sub, s, i)}
    IN  IF hits = {} THEN 0 ELSE Min(hits)

\* sub in s
Contains(sub, s) == \E i \in 1..(Len(s) - Len(sub) + 1) : MatchAt(sub, s, i)

----------------------------------------------------------------------------
(* IDCardOCR._normalize_text                                               *)

\* unicodedata.normalize('NFKD', text)
Decompose(text) == Flatten([i \in 1..Len(text) |-> NFKD(text[i])])

\* ''.join(ch for ch in text if not unicodedata.combining(ch))
DropCombining(text) == SelectSeq(text, LAMBDA ch : ch \notin CombiningChars)

\* text.lower()
LowerText(text) == [i \in 1..Len(text) |-> Lower(text[i])]

\* the same steps with the decomposition applied after the marks are dropped
_normalize_text_late_nfkd(text) ==
    CollapseWs(Strip(LowerText(Decompose(DropCombining(text))), SpaceChars))

_normalize_text(text) ==
    Only({CollapseWs(stripped) :
          stripped \in {Strip(lowered, SpaceChars) :
          lowered \in {LowerText(unmarked) :
          unmarked \in {DropCombining(decomposed) :
          decomposed \in {Decompose(text)}}}}})
----------------------------------------------------------------------------
(* int(), "{:02d}" and the date patterns.                                  *)

DigitVal ==
    ("0" :> 0) @@ ("1" :> 1) @@ ("2" :> 2) @@ ("3" :> 3) @@ ("4" :> 4) @@
    ("5" :> 5) @@ ("6" :> 6) @@ ("7" :> 7) @@ ("8" :> 8) @@ ("9" :> 9)

DigitChar == <<"0", "1", "2", "3", "4", "5", "6", "7", "8", "9">>

\* int(digits)
RECURSIVE ToInt(_)
ToInt(ds) ==
    IF ds = <<>> THEN 0
    ELSE 10 * ToInt(SubSeq(ds, 1, Len(ds) - 1)) + DigitVal[ds[Len(ds)]]

\* str(n) for n >= 0
RECURSIVE Decimal(_)
Decimal(n) ==
    IF n < 10 THEN <<DigitChar[n + 1]>>
    ELSE Decimal(n \div 10) \o <<DigitChar[(n % 10) + 1]>>

\* f"{n:0{width}d}"
ZeroPad(n, width) ==
    LET d == Decimal(n) IN [i \in 1..(width - Len(d)) |-> "0"] \o d

IsDigitAt(s, i) == i >= 1 /\ i <= Len(s) /\ IsDigit(s[i])

IsWordAt(s, i) == i >= 1 /\ i <= Len(s) /\ IsWordChar(s[i])

\* the end of the \s* that starts at position i
SkipWs(s, i) ==
    LET stop == {j \in i..Len(s) : ~IsSpace(s[j])}
    IN  IF stop = {} THEN Len(s) + 1 ELSE Min(stop)

\* the index after the greedy \d{1,2} that starts at position p
DigitsEnd(s, p) == IF IsDigitAt(s, p + 1) THEN p + 2 ELSE p + 1

\* the index after the match of \s*[seps]\s* at position i, 0 when there is
\* no separator
SeparatorEnd(s, i, seps) ==
    IF i <= Len(s) /\ s[i] \in seps THEN SkipWs(s, i + 1) ELSE 0

\* the match of (\d{1,2})\s*[seps]\s*(\d{1,2})\s*[seps]\s*(\d{4}) that starts
\* at position p, with its month at mon and its year at yr: \d{1,2} is
\* greedy and giving a digit back never helps, for the digit given back is
\* neither whitespace nor a separator
DateMatchAt(s, p, seps) ==
    Only({Only({IF /\ IsDigitAt(s, p)
                   /\ mon > 0 /\ IsDigitAt(s, mon)
                   /\ yr > 0 /\ \A k \in 0..3 : IsDigitAt(s, yr + k)
                THEN [ok |-> TRUE, day |-> SubSeq(s, p, DigitsEnd(s, p) - 1),
                      month |-> SubSeq(s, mon, DigitsEnd(s, mon) - 1),
                      year |-> SubSeq(s, yr, yr + 3), first |-> p, last |-> yr + 3]
                ELSE [ok |-> FALSE, day |-> <<>>, month |-> <<>>, year |-> <<>>,
                      first |-> p, last |-> p] :
                yr \in {IF mon > 0
                        THEN SeparatorEnd(s, SkipWs(s, DigitsEnd(s, mon)), seps)
                        ELSE 0}}) :
          mon \in {SeparatorEnd(s, SkipWs(s, DigitsEnd(s, p)), seps)}})

\* the least element of a set of positions, 0 when there is none
FirstOf(positions) == IF positions = {} THEN 0 ELSE Min(positions)

\* re.search of the date pattern from position `from` on: the leftmost match
DateSearch(s, from, seps) ==
    DateMatchAt(s, FirstOf({p \in from..Len(s) : DateMatchAt(s, p, seps).ok}), seps)

\* IDCardOCR._normalize_date_text
_normalize_date_text(raw) ==
    IF raw = <<>> THEN <<>>
    ELSE Only({IF ~match.ok THEN <<>>
               ELSE ZeroPad(ToInt(match.day), 2) \o <<"/">>
                    \o ZeroPad(ToInt(match.month), 2) \o <<"/">> \o match.year :
               match \in {DateSearch(raw, 1, {".", "/", "-"})}})

\* the leftmost match of \b(\d{8})\b, 0 when there is none
CompactSearch(raw) ==
    FirstOf({p \in 1..(Len(raw) - 7) :
                /\ \A k \in 0..7 : IsDigit(raw[p + k])
                /\ ~IsWordAt(raw, p - 1)
                /\ ~IsWordAt(raw, p + 8)})

\* the range check with the last day of the month left out
DayBelow31(day) == 1 <= day /\ day < 31

\* 1 <= day <= 31
DayInRange(day) == 1 <= day /\ day <= 31

\* IDCardOCR._normalize_compact_date; match is where the eight digits start
_normalize_compact_date(raw) ==
    IF raw = <<>> THEN <<>>
    ELSE Only({IF match = 0 THEN <<>>
               ELSE Only({IF /\ DayInRange(day)
                             /\ 1 <= month /\ month <= 12
                             /\ 1900 <= year /\ year <= 2100
                          THEN ZeroPad(day, 2) \o <<"/">> \o ZeroPad(month, 2)
                               \o <<"/">> \o ZeroPad(year, 4)
                          ELSE <<>> :
                          day \in {ToInt(SubSeq(raw, match, match + 1))},
                          month \in {ToInt(SubSeq(raw, match + 2, match + 3))},
                          year \in {ToInt(SubSeq(raw, match + 4, match + 7))}}) :
               match \in {CompactSearch(raw)}})
----------------------------------------------------------------------------
(* IDCardOCR._choose_best_id                                               *)

IdLength == 12

\* re.sub(r'\D', '', text)
OnlyDigits(text) == SelectSeq(text, IsDigit)

\* the keys of a Counter of items, in insertion order: first occurrences
RECURSIVE DistinctInOrder(_)
DistinctInOrder(items) ==
    IF items = <<>> THEN <<>>
    ELSE LET init == SubSeq(items, 1, Len(items) - 1)
             last == items[Len(items)]
         IN  IF \E i \in 1..Len(init) : init[i] = last
             THEN DistinctInOrder(init)
             ELSE Append(DistinctInOrder(init), last)

Count(items, x) == Cardinality({i \in 1..Len(items) : items[i] = x})

StartsWithZero(text) == Len(text) > 0 /\ text[1] = "0"

\* the sort key with the leading-zero flag negated
IdRankKeyNotZero(pair) == <<pair[2], IF StartsWithZero(pair[1]) THEN 0 ELSE 1>>

\* the sort key of a (number, count) pair: (count, number.startswith('0')),
\* with False < True
IdRankKey(pair) == <<pair[2], IF StartsWithZero(pair[1]) THEN 1 ELSE 0>>

\* key a < key b, as Python orders tuples
KeyLess(a, b) == a[1] < b[1] \/ (a[1] = b[1] /\ a[2] < b[2])

\* sorted(pairs, key=IdRankKey, reverse=True): the sort is stable, so pairs
\* with equal keys keep their order
RECURSIVE RankIds(_)
RankIds(pairs) ==
    IF pairs = <<>> THEN <<>>
    ELSE LET init == RankIds(SubSeq(pairs, 1, Len(pairs) - 1))
             last == pairs[Len(pairs)]
             \* last goes behind every pair whose key is not smaller
             ahead == {i \in 1..Len(init) :
                         ~KeyLess(IdRankKey(init[i]), IdRankKey(last))}
             k == IF ahead = {} THEN 0 ELSE Max(ahead)
         IN  SubSeq(init, 1, k) \o <<last>> \o SubSeq(init, k + 1, Len(init))

_choose_best_id(candidates) ==
    LET digits  == [i \in 1..Len(candidates) |-> OnlyDigits(candidates[i])]
        cleaned == SelectSeq(digits, LAMBDA c : Len(c) = IdLength)
        keys    == DistinctInOrder(cleaned)
        counts  == [i \in 1..Len(keys) |-> <<keys[i], Count(cleaned, keys[i])>>]
        ranked  == RankIds(counts)
    IN  IF cleaned = <<>> THEN <<>> ELSE ranked[1][1]

----------------------------------------------------------------------------
(* IDCardOCR._strip_known_labels, _extract_after_label, _clean_value        *)

\* the characters of strip(" ;,:.-") and strip(" ;,.-")
TrimChars == {" ", ";", ",", ":", ".", "-"}

TrimCharsNoColon == {" ", ";", ",", ".", "-"}

\* the class [\d\W_]: everything but the letters
NonLetterChars == Alphabet \ (AlnumChars \ DigitChars)

\* the alternatives of label_pattern, each a list of words that \s* separates
KnownLabelWords ==
    << << <<"h", "o">>, <<"v", "a">>, <<"t", "e", "n">> >>,
       << <<"h", "o">>, <<"t", "e", "n">> >>,
       << <<"f", "u", "l", "l">>, <<"n", "a", "m", "e">> >>,
       << <<"n", "g", "a", "y">>, <<"s", "i", "n", "h">> >>,
       << <<"d", "a", "t", "e">>, <<"o", "f">>, <<"b", "i", "r", "t", "h">> >>,
       << <<"g", "i", "o", "i">>, <<"t", "i", "n", "h">> >>,
       << <<"s", "e", "x">> >>,
       << <<"q", "u", "o", "c">>, <<"t", "i", "c", "h">> >>,
       << <<"n", "a", "t", "i", "o", "n", "a", "l", "i", "t", "y">> >>,
       << <<"q", "u", "e">>, <<"q", "u", "a", "n">> >>,
       << <<"p", "l", "a", "c", "e">>, <<"o", "f">>, <<"o", "r", "i", "g", "i", "n">> >>,
       << <<"n", "o", "i">>, <<"t", "h", "u", "o", "n", "g">>, <<"t", "r", "u">> >>,
       << <<"t", "h", "u", "o", "n", "g">>, <<"t", "r", "u">> >>,
       << <<"p", "e", "r", "m", "a", "n", "e", "n", "t">>, <<"r", "e", "s", "i", "d", "e", "n", "c", "e">> >>,
       << <<"r", "e", "s", "i", "d", "e", "n", "c", "e">> >>,
       << <<"i", "d">>, <<"n", "o">> >>,
       << <<"n", "o">> >>,
       << <<"s", "o">>, <<"d", "i", "n", "h">>, <<"d", "a", "n", "h">> >>,
       << <<"s", "o">> >> >>

\* the end of the match of word1\s*word2\s*... at position p, 0 when there is
\* none: \s* takes all the whitespace there is, for no word starts with one
RECURSIVE MatchWordsAt(_, _, _)
MatchWordsAt(s, p, ws) ==
    IF ws = <<>> THEN p
    ELSE IF MatchAt(Head(ws), s, p)
         THEN LET q == p + Len(Head(ws))
              IN  MatchWordsAt(s, IF Len(ws) > 1 THEN SkipWs(s, q) ELSE q, Tail(ws))
         ELSE 0

\* re.match(label_pattern, s): what follows the label in the pattern,
\* \s*(?:/\s*)?, matches the empty text
StartsWithLabel(s) ==
    \E k \in 1..Len(KnownLabelWords) : MatchWordsAt(s, 1, KnownLabelWords[k]) > 0

\* the same substitution without [^:;\-]*: only a delimiter at the very start
\* and the whitespace around it are dropped
DropLeadingDelimiter(value) ==
    LET rest == LStrip(value, SpaceChars)
    IN  IF rest # <<>> /\ rest[1] \in {":", ";", "-"}
        THEN LStrip(Tail(rest), SpaceChars)
        ELSE rest

\* re.sub(r'^\s*[^:;\-]*[:;\-]?\s*', '', value, count=1): the text up to and
\* with the first of : ; - and the whitespace behind it, or all of the text
DropThroughDelimiter(value) ==
    LET delims == {i \in 1..Len(value) : value[i] \in {":", ";", "-"}}
    IN  IF delims = {} THEN <<>>
        ELSE LStrip(SubSeq(value, Min(delims) + 1, Len(value)), SpaceChars)

\* the first of two values that is not empty: `if a: return a` before b
OrElse(a, b) == IF a # <<>> THEN a ELSE b

\* the while loop of _strip_known_labels
RECURSIVE StripLabelLoop(_)
StripLabelLoop(value) ==
    IF ~StartsWithLabel(_normalize_text(value)) THEN value
    ELSE Only({IF rest = <<>> THEN rest ELSE StripLabelLoop(rest) :
               rest \in {Strip(DropThroughDelimiter(value), TrimChars)}})

_strip_known_labels(value) ==
    IF value = <<>> THEN <<>>
    ELSE StripLabelLoop(LStrip(Strip(CollapseWs(value), TrimChars), NonLetterChars))

\* any(label in line for label in labels)
_line_has_any_label(normalized_line, labels) ==
    \E k \in 1..Len(labels) : Contains(labels[k], normalized_line)

\* line.split(sep, 1)[1]
AfterFirst(line, sep) ==
    SubSeq(line, Min({i \in 1..Len(line) : line[i] = sep}) + 1, Len(line))

HasChar(line, ch) == \E i \in 1..Len(line) : line[i] = ch

\* after_colon and after_dash are `cleaned` of the two if blocks, empty when
\* the line holds no such character
_extract_after_label(raw_line, labels) ==
    IF raw_line = <<>> THEN <<>>
    ELSE Only({IF after_colon # <<>> THEN after_colon
               ELSE IF after_dash # <<>> THEN after_dash
               ELSE IF /\ _line_has_any_label(normalized_line, labels)
                       /\ candidate # <<>>
                       /\ _normalize_text(candidate) # normalized_line
               THEN candidate
               ELSE <<>> :
               after_colon \in
                   {IF HasChar(raw_line, ":")
                    THEN _strip_known_labels(Strip(AfterFirst(raw_line, ":"),
                                                   TrimCharsNoColon))
                    ELSE <<>>},
               after_dash \in
                   {IF HasChar(raw_line, "-")
                    THEN _strip_known_labels(Strip(AfterFirst(raw_line, "-"),
                                                   TrimCharsNoColon))
                    ELSE <<>>},
               normalized_line \in {_normalize_text(raw_line)},
               candidate \in {_strip_known_labels(raw_line)}})

_clean_value(value) == Strip(CollapseWs(_strip_known_labels(value)), TrimChars)

----------------------------------------------------------------------------
(* IDCardOCR._is_noise_or_label                                            *)

BlockedPhrases ==
    << <<"h", "o", " ", "v", "a", " ", "t", "e", "n">>,
       <<"f", "u", "l", "l", " ", "n", "a", "m", "e">>,
       <<"n", "g", "a", "y", " ", "s", "i", "n", "h">>,
       <<"d", "a", "t", "e", " ", "o", "f", " ", "b", "i", "r", "t", "h">>,
       <<"g", "i", "o", "i", " ", "t", "i", "n", "h">>,
       <<"s", "e", "x">>,
       <<"q", "u", "o", "c", " ", "t", "i", "c", "h">>,
       <<"n", "a", "t", "i", "o", "n", "a", "l", "i", "t", "y">>,
       <<"q", "u", "e", " ", "q", "u", "a", "n">>,
       <<"p", "l", "a", "c", "e", " ", "o", "f", " ", "o", "r", "i", "g", "i", "n">>,
       <<"n", "o", "i", " ", "t", "h", "u", "o", "n", "g", " ", "t", "r", "u">>,
       <<"p", "e", "r", "m", "a", "n", "e", "n", "t", " ", "r", "e", "s", "i", "d", "e", "n", "c", "e">>,
       <<"r", "e", "s", "i", "d", "e", "n", "c", "e">>,
       <<"c", "o", " ", "g", "i", "a", " ", "t", "r", "i">>,
       <<"v", "a", "l", "i", "d", " ", "u", "n", "t", "i", "l">>,
       <<"c", "a", "n", " ", "c", "u", "o", "c">>,
       <<"c", "o", "n", "g", " ", "h", "o", "a">>,
       <<"c", "i", "t", "i", "z", "e", "n", " ", "i", "d", "e", "n", "t", "i", "t", "y", " ", "c", "a", "r", "d">>,
       <<"i", "d", "e", "n", "t", "i", "t", "y", " ", "c", "a", "r", "d">>,
       <<"c", "a", "n", " ", "c", "u", "o", "c", " ", "c", "o", "n", "g", " ", "d", "a", "n">> >>

BlockedWords ==
    << <<"q", "u", "a", "n">>,
       <<"p", "h", "o">>,
       <<"o", "f">>,
       <<"o", "r", "i", "g", "i", "n">>,
       <<"r", "e", "s", "i", "d", "e", "n", "c", "e">> >>

BlockedFragments ==
    << <<"o", "f">>,
       <<"o", "r", "i", "g", "i", "n">>,
       <<"r", "e", "s", "i", "d", "e", "n", "c", "e">> >>

InSeq(x, list) == \E k \in 1..Len(list) : list[k] = x

\* len(normalized.split())
WordCount(s) ==
    Cardinality({i \in 1..Len(s) : ~IsSpace(s[i]) /\ (i = 1 \/ IsSpace(s[i - 1]))})

_is_noise_or_label(value) ==
    \/ value = <<>>
    \/ \E normalized \in {_normalize_text(value)} :
          \/ Len(normalized) < 3
          \/ \E k \in 1..Len(BlockedPhrases) : Contains(BlockedPhrases[k], normalized)
          \/ InSeq(normalized, BlockedWords)
          \/ /\ normalized # <<>>
             /\ \A i \in 1..Len(normalized) :
                   normalized[i] \in AsciiLowerChars \/ IsSpace(normalized[i])
             /\ WordCount(normalized) <= 2
             /\ InSeq(normalized, BlockedFragments)

----------------------------------------------------------------------------
(* IDCardOCR._dedupe_place_text                                            *)

PlaceFillers ==
    << <<"q", "u", "e">>,
       <<"q", "u", "a", "n">>,
       <<"p", "h", "o">>,
       <<"t", "h", "i">> >>

\* re.split(r'[;,]+', value)
RECURSIVE SplitParts(_)
SplitParts(value) ==
    LET seps == {i \in 1..Len(value) : value[i] \in {";", ","}}
    IN  IF seps = {} THEN <<value>>
        ELSE LET first == Min(seps)
                 rest  == LStrip(SubSeq(value, first, Len(value)), {";", ","})
             IN  <<SubSeq(value, 1, first - 1)>> \o SplitParts(rest)

\* ", ".join(parts)
RECURSIVE JoinParts(_)
JoinParts(parts) ==
    IF parts = <<>> THEN <<>>
    ELSE IF Len(parts) = 1 THEN parts[1]
    ELSE parts[1] \o <<",", " ">> \o JoinParts(Tail(parts))

\* the key under which a part is remembered, without the normalisation
PlaceKeyRaw(part_clean) == part_clean

\* the key under which a part is remembered
PlaceKey(part_clean) == _normalize_text(part_clean)

\* the for loop of _dedupe_place_text, from part i on
RECURSIVE DedupeLoop(_, _, _, _)
DedupeLoop(parts, i, seen, clean_parts) ==
    IF i > Len(parts) THEN clean_parts
    ELSE Only({Only({IF part_clean = <<>> \/ normalized \in seen
                     THEN DedupeLoop(parts, i + 1, seen, clean_parts)
                     ELSE IF InSeq(normalized, PlaceFillers)
                     THEN DedupeLoop(parts, i + 1, seen, clean_parts)
                     ELSE DedupeLoop(parts, i + 1, seen \cup {normalized},
                                     Append(clean_parts, part_clean)) :
                     normalized \in {PlaceKey(part_clean)}}) :
               part_clean \in {Strip(parts[i], {" ", ".", ",", "-"})}})

_dedupe_place_text(value) ==
    IF value = <<>> THEN <<>>
    ELSE JoinParts(DedupeLoop(SplitParts(value), 1, {}, <<>>))

----------------------------------------------------------------------------
(* The label lists of IDCardOCR.parse_data.                                *)

no_labels ==
    << <<"s", "o">>,
       <<"s", "o", " ", "d", "i", "n", "h", " ", "d", "a", "n", "h">>,
       <<"i", "d", " ", "n", "o">>,
       <<"n", "o", ".">>,
       <<"n", "o">> >>

dob_labels ==
    << <<"n", "g", "a", "y", " ", "s", "i", "n", "h">>,
       <<"d", "a", "t", "e", " ", "o", "f", " ", "b", "i", "r", "t", "h">> >>

sex_labels ==
    << <<"g", "i", "o", "i", " ", "t", "i", "n", "h">>,
       <<"s", "e", "x">> >>

name_labels ==
    << <<"h", "o", " ", "v", "a", " ", "t", "e", "n">>,
       <<"h", "o", " ", "t", "e", "n">>,
       <<"f", "u", "l", "l", " ", "n", "a", "m", "e">> >>

nationality_labels ==
    << <<"q", "u", "o", "c", " ", "t", "i", "c", "h">>,
       <<"n", "a", "t", "i", "o", "n", "a", "l", "i", "t", "y">> >>

nationality_stop_labels ==
    << <<"q", "u", "e", " ", "q", "u", "a", "n">>,
       <<"p", "l", "a", "c", "e", " ", "o", "f", " ", "o", "r", "i", "g", "i", "n">>,
       <<"n", "o", "i", " ", "t", "h", "u", "o", "n", "g", " ", "t", "r", "u">>,
       <<"r", "e", "s", "i", "d", "e", "n", "c", "e">>,
       <<"g", "i", "o", "i", " ", "t", "i", "n", "h">>,
       <<"s", "e", "x">>,
       <<"n", "g", "a", "y", " ", "s", "i", "n", "h">>,
       <<"d", "a", "t", "e", " ", "o", "f", " ", "b", "i", "r", "t", "h">>,
       <<"h", "o", " ", "v", "a", " ", "t", "e", "n">>,
       <<"f", "u", "l", "l", " ", "n", "a", "m", "e">> >>

origin_labels ==
    << <<"q", "u", "e", " ", "q", "u", "a", "n">>,
       <<"p", "l", "a", "c", "e", " ", "o", "f", " ", "o", "r", "i", "g", "i", "n">> >>

stop_labels ==
    << <<"c", "o", " ", "g", "i", "a", " ", "t", "r", "i", " ", "d", "e", "n">>,
       <<"q", "u", "o", "c", " ", "t", "i", "c", "h">>,
       <<"g", "i", "o", "i", " ", "t", "i", "n", "h">>,
       <<"n", "g", "a", "y", " ", "s", "i", "n", "h">>,
       <<"h", "o", " ", "v", "a", " ", "t", "e", "n">>,
       <<"n", "o", "i", " ", "t", "h", "u", "o", "n", "g", " ", "t", "r", "u">>,
       <<"t", "h", "u", "o", "n", "g", " ", "t", "r", "u">>,
       <<"i", "d", " ", "n", "o">>,
       <<"s", "o", " ", "d", "i", "n", "h", " ", "d", "a", "n", "h">>,
       <<"c", "a", "n", " ", "c", "u", "o", "c">> >>

residence_labels ==
    << <<"n", "o", "i", " ", "t", "h", "u", "o", "n", "g", " ", "t", "r", "u">>,
       <<"t", "h", "u", "o", "n", "g", " ", "t", "r", "u">>,
       <<"p", "e", "r", "m", "a", "n", "e", "n", "t", " ", "r", "e", "s", "i", "d", "e", "n", "c", "e">>,
       <<"r", "e", "s", "i", "d", "e", "n", "c", "e">> >>

residence_stop_labels ==
    << <<"c", "o", " ", "g", "i", "a", " ", "t", "r", "i", " ", "d", "e", "n">>,
       <<"c", "o", " ", "g", "i", "a", " ", "t", "r", "i">>,
       <<"q", "u", "o", "c", " ", "t", "i", "c", "h">>,
       <<"g", "i", "o", "i", " ", "t", "i", "n", "h">>,
       <<"n", "g", "a", "y", " ", "s", "i", "n", "h">>,
       <<"h", "o", " ", "v", "a", " ", "t", "e", "n">>,
       <<"q", "u", "e", " ", "q", "u", "a", "n">>,
       <<"i", "d", " ", "n", "o">>,
       <<"s", "o", " ", "d", "i", "n", "h", " ", "d", "a", "n", "h">>,
       <<"c", "a", "n", " ", "c", "u", "o", "c">> >>

expiry_labels ==
    << <<"c", "o", " ", "g", "i", "a", " ", "t", "r", "i", " ", "d", "e", "n">>,
       <<"v", "a", "l", "i", "d", " ", "u", "n", "t", "i", "l">>,
       <<"e", "x", "p", "i", "r", "y">> >>


----------------------------------------------------------------------------
(* Helpers of IDCardOCR.parse_data.                                        *)

\* the value a Python exception is modelled by: a lookup that reads past the
\* end of the list of lines yields it, and parse_data then yields no record
IndexError == <<"IndexError">>

\* index + 1 < len(lines), for the 1-based index of the model
HasNextLineOffByOne(lines, index) == index <= Len(lines)

HasNextLine(lines, index) == index + 1 <= Len(lines)

RECURSIVE JoinWith(_, _)
JoinWith(parts, sep) ==
    IF parts = <<>> THEN <<>>
    ELSE IF Len(parts) = 1 THEN parts[1]
    ELSE parts[1] \o sep \o JoinWith(Tail(parts), sep)

RECURSIVE ValueFromLinesLoop(_, _, _, _)
ValueFromLinesLoop(lines, normalized_lines, labels, index) ==
    IF index > Len(normalized_lines) THEN <<>>
    ELSE IF ~_line_has_any_label(normalized_lines[index], labels)
    THEN ValueFromLinesLoop(lines, normalized_lines, labels, index + 1)
    ELSE Only({IF inline # <<>> THEN _clean_value(inline)
               ELSE IF ~HasNextLine(lines, index)
               THEN ValueFromLinesLoop(lines, normalized_lines, labels, index + 1)
               ELSE IF index + 1 > Len(lines) THEN IndexError
               ELSE OrElse(_clean_value(lines[index + 1]),
                           ValueFromLinesLoop(lines, normalized_lines, labels,
                                              index + 1)) :
               inline \in {_extract_after_label(lines[index], labels)}})

_extract_value_from_lines(lines, normalized_lines, labels) ==
    ValueFromLinesLoop(lines, normalized_lines, labels, 1)

SegmentTrimChars == {" ", ";", ",", ":", ".", "-", "/"}

\* start is the least index at which a label occurs, start_label the first
\* label of the list that occurs there, stop_at the least index at which a
\* stop label occurs in the segment
_extract_segment_by_labels(raw_line, labels, stops) ==
    Only({IF ~_line_has_any_label(normalized_line, labels) THEN <<>>
          ELSE Only({Only({LET stop_at ==
                                   Min({Len(segment) + 1} \cup
                                       {Find(stops[k], segment) :
                                           k \in {n \in 1..Len(stops) :
                                                     Contains(stops[n], segment)}})
                           IN  LStrip(Strip(SubSeq(segment, 1, stop_at - 1),
                                            SegmentTrimChars), NonLetterChars) :
                           segment \in
                               {LET start_label ==
                                        labels[Min({k \in 1..Len(labels) :
                                            Find(labels[k], normalized_line) = start})]
                                IN  Strip(SubSeq(normalized_line, start + Len(start_label),
                                                 Len(normalized_line)),
                                          SegmentTrimChars)}}) :
                     start \in {Min({Find(labels[k], normalized_line) :
                                       k \in {n \in 1..Len(labels) :
                                                 Contains(labels[n], normalized_line)}})}}) :
          normalized_line \in {_normalize_text(raw_line)}})

RECURSIVE FindAllIds(_, _)
FindAllIds(text, from) ==
    Only({IF start = 0 THEN <<>>
          ELSE <<SubSeq(text, start, start + IdLength - 1)>>
               \o FindAllIds(text, start + IdLength) :
          start \in {FirstOf({p \in from..(Len(text) - IdLength + 1) :
                                \A k \in 0..(IdLength - 1) : IsDigit(text[p + k])})}})

\* re.search(r'\bword\b', text)
HasWord(text, word) ==
    \E p \in 1..Len(text) :
        /\ MatchAt(word, text, p)
        /\ ~IsWordAt(text, p - 1)
        /\ ~IsWordAt(text, p + Len(word))

Nam == <<"N", "a", "m">>

Nu == <<"N", "u*~">>

VietNam == <<"V", "i", "e.^", "t", " ", "N", "a", "m">>

\* the sex a normalized text names: the two re.search of each if/elif
SexIn(normalized) ==
    IF HasWord(normalized, <<"n", "a", "m">>) \/ HasWord(normalized, <<"m", "a", "l", "e">>)
    THEN Nam
    ELSE IF HasWord(normalized, <<"n", "u">>)
            \/ HasWord(normalized, <<"f", "e", "m", "a", "l", "e">>)
    THEN Nu
    ELSE <<>>

\* the loop that looks for a date on a labelled line or on the line after it
\* the date a line holds: _normalize_date_text, then _normalize_compact_date
DateOnLine(line) == OrElse(_normalize_date_text(line), _normalize_compact_date(line))

RECURSIVE LabelledDateLoop(_, _, _, _)
LabelledDateLoop(lines, normalized_lines, labels, index) ==
    IF index > Len(normalized_lines) THEN <<>>
    ELSE IF ~_line_has_any_label(normalized_lines[index], labels)
    THEN LabelledDateLoop(lines, normalized_lines, labels, index + 1)
    ELSE OrElse(DateOnLine(lines[index]),
                IF ~HasNextLine(lines, index)
                THEN LabelledDateLoop(lines, normalized_lines, labels, index + 1)
                ELSE IF index + 1 > Len(lines) THEN IndexError
                ELSE OrElse(DateOnLine(lines[index + 1]),
                            LabelledDateLoop(lines, normalized_lines, labels, index + 1)))

----------------------------------------------------------------------------
(* The field rules of IDCardOCR.parse_data.                                *)

HasDigit(text) == \E i \in 1..Len(text) : IsDigit(text[i])

RECURSIVE NameLoop(_, _, _)
NameLoop(lines, normalized_lines, i) ==
    IF i > Len(normalized_lines) THEN <<>>
    ELSE IF ~_line_has_any_label(normalized_lines[i], name_labels)
    THEN NameLoop(lines, normalized_lines, i + 1)
    ELSE Only({Only({IF inline_name # <<>> /\ ~_is_noise_or_label(candidate_name)
                     THEN candidate_name
                     ELSE IF ~HasNextLine(lines, i)
                     THEN NameLoop(lines, normalized_lines, i + 1)
                     ELSE IF i + 1 > Len(lines) THEN IndexError
                     ELSE Only({IF /\ candidate_clean # <<>>
                                   /\ ~HasDigit(candidate_clean)
                                   /\ ~_is_noise_or_label(candidate_clean)
                                THEN candidate_clean
                                ELSE NameLoop(lines, normalized_lines, i + 1) :
                                candidate_clean \in
                                    {_clean_value(Strip(lines[i + 1], {" ", ":", "-"}))}}) :
                     candidate_name \in {_clean_value(inline_name)}}) :
               inline_name \in {_extract_after_label(lines[i], name_labels)}})

\* len(line) > 4 and re.match(r'^[A-Z\u00c0-\u1ef8\s]+$', line)
IsUppercaseLine(line) ==
    /\ Len(line) > 4
    /\ \A i \in 1..Len(line) : line[i] \in UpperRangeChars \/ IsSpace(line[i])

\* the first line for which _extract_segment_by_labels finds a nationality
RECURSIVE NationalitySegmentLoop(_, _)
NationalitySegmentLoop(lines, i) ==
    IF i > Len(lines) THEN <<>>
    ELSE Only({IF candidate # <<>> THEN _clean_value(candidate)
               ELSE NationalitySegmentLoop(lines, i + 1) :
               candidate \in {_extract_segment_by_labels(lines[i], nationality_labels,
                                                         nationality_stop_labels)}})

NationalityLabelWords ==
    << << <<"q", "u", "o", "c">>, <<"t", "i", "c", "h">> >>,
       << <<"n", "a", "t", "i", "o", "n", "a", "l", "i", "t", "y">> >> >>

NationalityCutWords ==
    << << <<"g", "i", "o", "i">>, <<"t", "i", "n", "h">> >>,
       << <<"s", "e", "x">> >>,
       << <<"q", "u", "e">>, <<"q", "u", "a", "n">> >>,
       << <<"p", "l", "a", "c", "e">>, <<"o", "f">>, <<"o", "r", "i", "g", "i", "n">> >>,
       << <<"n", "o", "i">>, <<"t", "h", "u", "o", "n", "g">>, <<"t", "r", "u">> >>,
       << <<"r", "e", "s", "i", "d", "e", "n", "c", "e">> >>,
       << <<"n", "g", "a", "y">>, <<"s", "i", "n", "h">> >>,
       << <<"d", "a", "t", "e">>, <<"o", "f">>, <<"b", "i", "r", "t", "h">> >> >>

\* the end (the index after it) of the first of the phrases that matches at
\* p, its words joined by \s*; 0 when none does
PhraseEndAt(s, p, phrases) ==
    Only({IF k = 0 THEN 0 ELSE MatchWordsAt(s, p, phrases[k]) :
          k \in {FirstOf({n \in 1..Len(phrases) :
                            MatchWordsAt(s, p, phrases[n]) > 0})}})

SkipChars(s, i, chars) ==
    Min({Len(s) + 1} \cup {j \in i..Len(s) : s[j] \notin chars})

MaxNationalityGroup == 30

\* re.search(r'(?:quoc\s*tich|nationality)\s*[:/\-]*\s*([a-z\s]{2,30})', s)
\* tried with the label at p: group 1, or <<>> when there is no match. The
\* group may begin inside the whitespace before it when fewer than two
\* characters follow; that whitespace is what .strip() removes again.
\* The label ends before e, the whitespace behind it before w1, the run of
\* : / - before d and the whitespace behind that before s0.
NationalityGroupAt(s, p) ==
    Only({IF e = 0 THEN <<>>
          ELSE LET w1    == SkipWs(s, e)
                   d     == SkipChars(s, w1, {":", "/", "-"})
                   s0    == SkipWs(s, d)
                   stop  == SkipChars(s, s0, AsciiLowerChars \cup SpaceChars)
                   run   == SubSeq(s, s0, Min({stop - 1, s0 + MaxNationalityGroup - 1}))
                   spare == IF d > w1 THEN s0 - d ELSE s0 - e
               IN  IF Len(run) >= 2 THEN run
                   ELSE IF Len(run) + spare >= 2
                   THEN SubSeq(s, s0 - (2 - Len(run)), s0 - 1) \o run
                   ELSE <<>> :
          e \in {PhraseEndAt(s, p, NationalityLabelWords)}})

\* re.sub(r'\b(?:gioi\s*tinh|...|date\s*of\s*birth)\b.*$', '', candidate)
CutAtLabel(candidate) ==
    Only({IF cut = 0 THEN candidate ELSE SubSeq(candidate, 1, cut - 1) :
          cut \in {FirstOf({p \in 1..Len(candidate) :
                              /\ ~IsWordAt(candidate, p - 1)
                              /\ \E e \in {PhraseEndAt(candidate, p, NationalityCutWords)} :
                                    e > 0 /\ ~IsWordAt(candidate, e)})}})

\* str.title
Title(s) ==
    [i \in 1..Len(s) |->
        IF i > 1 /\ s[i - 1] \in AlnumChars \ DigitChars THEN Lower(s[i]) ELSE Upper(s[i])]

\* the nationality re-read from a value that still holds its label; match is
\* where the leftmost match of the pattern starts
NationalityFromLabelled(nationality) ==
    Only({Only({IF match = 0 THEN nationality
                ELSE Only({IF candidate = <<>> THEN nationality ELSE Title(candidate) :
                           candidate \in
                               {Strip(CutAtLabel(Strip(NationalityGroupAt(nationality_norm,
                                                                          match),
                                                       SpaceChars)), SpaceChars)}}) :
                match \in {FirstOf({p \in 1..Len(nationality_norm) :
                                      NationalityGroupAt(nationality_norm, p) # <<>>})}}) :
          nationality_norm \in {_normalize_text(nationality)}})

NationalityForcedWithoutStray(nationality) ==
    IF \/ Contains(<<"v", "i", "e", "t", " ", "n", "a", "m">>, _normalize_text(nationality))
       \/ Contains(<<"v", "i", "e", "t", "n", "a", "m">>, _normalize_text(nationality))
    THEN VietNam
    ELSE nationality

\* the rules that force the value to the canonical name
NationalityForced(nationality) ==
    Only({IF \/ Contains(<<"v", "i", "e", "t", " ", "n", "a", "m">>, normalized_nationality)
             \/ Contains(<<"v", "i", "e", "t", "n", "a", "m">>, normalized_nationality)
          THEN VietNam
          ELSE IF \/ Contains(<<"q", "u", "o", "c", " ", "t", "i", "c", "h">>,
                              normalized_nationality)
                  \/ Contains(<<"n", "a", "t", "i", "o", "n", "a", "l", "i", "t", "y">>,
                              normalized_nationality)
                  \/ normalized_nationality \in {<<"n", "a", "m">>, <<"m", "a", "l", "e">>}
          THEN VietNam
          ELSE nationality :
          normalized_nationality \in {_normalize_text(nationality)}})

----------------------------------------------------------------------------
(* Places, dates and the record of IDCardOCR.parse_data.                   *)

DateSeparators == {"/", "-"}

\* re.search(date_pattern, line)
HasDate(line) == DateSearch(line, 1, DateSeparators).ok

MaxOriginParts == 5

MaxAddressParts == 6

RECURSIVE AccumulateWithoutLimit(_, _, _, _, _, _)
AccumulateWithoutLimit(lines, normalized_lines, j, parts, stops, limit) ==
    IF j > Len(lines) THEN parts
    ELSE IF _line_has_any_label(normalized_lines[j], stops) THEN parts
    ELSE IF HasDate(lines[j]) THEN parts
    ELSE Only({AccumulateWithoutLimit(lines, normalized_lines, j + 1,
                                      IF /\ cleaned_part # <<>>
                                         /\ ~_is_noise_or_label(cleaned_part)
                                      THEN Append(parts, cleaned_part)
                                      ELSE parts,
                                      stops, limit) :
               cleaned_part \in {_clean_value(Strip(lines[j], {" ", ",", ".", "-"}))}})

\* the while loop that gathers the lines after a place label
RECURSIVE AccumulateParts(_, _, _, _, _, _)
AccumulateParts(lines, normalized_lines, j, parts, stops, limit) ==
    IF j > Len(lines) THEN parts
    ELSE IF _line_has_any_label(normalized_lines[j], stops) THEN parts
    ELSE IF HasDate(lines[j]) THEN parts
    ELSE Only({Only({IF Len(grown) >= limit THEN grown
                     ELSE AccumulateParts(lines, normalized_lines, j + 1, grown,
                                          stops, limit) :
                     grown \in {IF /\ cleaned_part # <<>>
                                   /\ ~_is_noise_or_label(cleaned_part)
                                THEN Append(parts, cleaned_part)
                                ELSE parts}}) :
               cleaned_part \in {_clean_value(Strip(lines[j], {" ", ",", ".", "-"}))}})

\* the first line that holds one of the labels; 0 when none does
FirstLabelled(normalized_lines, labels) ==
    FirstOf({i \in 1..Len(normalized_lines) :
                _line_has_any_label(normalized_lines[i], labels)})

\* the parts of a place: the value on the labelled line i, then the lines
\* that follow it
GatherParts(lines, normalized_lines, i, labels, stops, limit) ==
    Only({AccumulateParts(lines, normalized_lines, i + 1,
                          IF inline_clean # <<>> /\ ~_is_noise_or_label(inline_clean)
                          THEN <<inline_clean>>
                          ELSE <<>>,
                          stops, limit) :
          inline_clean \in {_clean_value(_extract_after_label(lines[i], labels))}})

MinLocationLength == 10

has_location_shape_any(combined_origin) == TRUE

has_location_shape(combined_origin) ==
    \/ HasChar(combined_origin, ",")
    \/ HasChar(combined_origin, ";")
    \/ Len(combined_origin) >= MinLocationLength

PlaceOfOrigin(lines, normalized_lines) ==
    Only({IF i = 0 THEN <<>>
          ELSE Only({IF origin_parts = <<>> THEN <<>>
                     ELSE Only({IF /\ has_location_shape(combined_origin)
                                   /\ ~Contains(<<"c", "i", "t", "i", "z", "e", "n", " ",
                                                  "i", "d", "e", "n", "t", "i", "t", "y",
                                                  " ", "c", "a", "r", "d">>,
                                                _normalize_text(combined_origin))
                                THEN _dedupe_place_text(combined_origin)
                                ELSE <<>> :
                                combined_origin \in {_clean_value(JoinParts(origin_parts))}}) :
                     origin_parts \in {GatherParts(lines, normalized_lines, i,
                                                   origin_labels, stop_labels,
                                                   MaxOriginParts)}}) :
          i \in {FirstLabelled(normalized_lines, origin_labels)}})

ResidencePrefixWords ==
    << << <<"p", "l", "a", "c", "e">>, <<"o", "f">>,
          <<"r", "e", "s", "i", "d", "e", "n", "c", "e">> >>,
       << <<"p", "e", "r", "m", "a", "n", "e", "n", "t">>,
          <<"r", "e", "s", "i", "d", "e", "n", "c", "e">> >>,
       << <<"r", "e", "s", "i", "d", "e", "n", "c", "e">> >> >>

\* re.sub(r'^\s*\d*\s*(place\s*of\s*residence|...)\s*[:;,-]*\s*', '', value,
\*        flags=re.IGNORECASE)
\* e is the end of the prefix label, 0 without one
StripResidencePrefix(value) ==
    Only({IF e = 0 THEN value
          ELSE SubSeq(value,
                      SkipWs(value, SkipChars(value, SkipWs(value, e),
                                              {":", ";", ",", "-"})),
                      Len(value)) :
          e \in {PhraseEndAt(LowerText(value),
                             SkipWs(value, SkipChars(value, SkipWs(value, 1), DigitChars)),
                             ResidencePrefixWords)}})

Residence(lines, normalized_lines) ==
    Only({IF i = 0 THEN <<>>
          ELSE Only({IF address_parts = <<>> THEN <<>>
                     ELSE Only({IF residence = <<>> THEN <<>>
                                ELSE Strip(StripResidencePrefix(residence), TrimChars) :
                                residence \in {_clean_value(JoinParts(address_parts))}}) :
                     address_parts \in {GatherParts(lines, normalized_lines, i,
                                                    residence_labels,
                                                    residence_stop_labels,
                                                    MaxAddressParts)}}) :
          i \in {FirstLabelled(normalized_lines, residence_labels)}})

\* [_normalize_date_text(d) for d in re.findall(date_pattern, full_text)],
\* without the empty results
RECURSIVE FindAllDates(_, _)
FindAllDates(full_text, from) ==
    Only({IF ~match.ok THEN <<>>
          ELSE Only({(IF d = <<>> THEN <<>> ELSE <<d>>)
                     \o FindAllDates(full_text, match.last + 1) :
                     d \in {_normalize_date_text(SubSeq(full_text, match.first,
                                                        match.last))}}) :
          match \in {DateSearch(full_text, from, DateSeparators)}})

\* len(dates) > 1
EnoughDates(dates) == Len(dates) > 1

\* for d in reversed(dates): the last date that is not the date of birth
ExpiryFallback(dates, date_of_birth) ==
    LET other == SelectSeq(dates, LAMBDA d : d # date_of_birth)
    IN  IF EnoughDates(dates) /\ other # <<>> THEN other[Len(other)] ELSE <<>>

----------------------------------------------------------------------------
(* IDCardOCR.parse_data.  A confidence is a number of hundredths; an       *)
(* observation is <<bbox, text, confidence>> and may lack its last items;  *)
(* text_list is the list and whether its items are observations.           *)

ParseThreshold == 25

CanonicalKeys ==
    {"fullname", "date_of_birth", "sex", "nationality", "place_of_origin", "no",
     "residence", "expiry_date"}

AliasKeys ==
    {"full_name", "id_number", "dob", "gender", "ho_va_ten", "so", "ngay_sinh",
     "gioi_tinh", "quoc_tich", "que_quan", "noi_thuong_tru", "co_gia_tri_den"}

\* len(item) >= 3
HasConfidence(item) == Len(item) >= 3

\* the lines parse_data works on
ParseLines(list) ==
    IF list.items # <<>> /\ list.tuples
    THEN LET kept == SelectSeq(list.items,
                               LAMBDA item : HasConfidence(item) /\ item[3] >= ParseThreshold)
         IN  [i \in 1..Len(kept) |-> Strip(kept[i][2], SpaceChars)]
    ELSE [i \in 1..Len(list.items) |-> Strip(list.items[i], SpaceChars)]

IdNumber(lines, full_text, from_label) ==
    Only({IF best_id # <<>> THEN best_id
          ELSE IF /\ Len(digits_only) >= IdLength
                  /\ (from_label = <<>> \/ Len(OnlyDigits(from_label)) < 9)
          THEN SubSeq(digits_only, 1, IdLength)
          ELSE from_label :
          best_id \in
              {_choose_best_id(
                   FindAllIds(full_text, 1)
                   \o SelectSeq([i \in 1..Len(lines) |-> OnlyDigits(lines[i])],
                                LAMBDA compact : Len(compact) = IdLength))},
          digits_only \in {OnlyDigits(full_text)}})

DateOfBirth(full_text, from_label) ==
    OrElse(from_label,
           OrElse(_normalize_date_text(full_text), _normalize_compact_date(full_text)))

Sex(sex_line_value, normalized_full_text) ==
    OrElse(SexIn(_normalize_text(sex_line_value)), SexIn(normalized_full_text))

Fullname(lines, from_label) ==
    Only({IF from_label # <<>> THEN from_label
          ELSE IF uppercase_lines # <<>> THEN uppercase_lines[1]
          ELSE <<>> :
          uppercase_lines \in {SelectSeq(lines, IsUppercaseLine)}})

\* found is the value by the label or by the segment, reread what the
\* pattern makes of it and forced what the canonical name makes of that
Nationality(lines, normalized_full_text, from_label) ==
    Only({Only({Only({IF /\ forced = <<>>
                         /\ Contains(<<"v", "i", "e", "t", " ", "n", "a", "m">>,
                                     normalized_full_text)
                      THEN VietNam
                      ELSE forced :
                      forced \in {IF reread # <<>> THEN NationalityForced(reread)
                                  ELSE reread}}) :
                reread \in {IF found # <<>> THEN NationalityFromLabelled(found)
                            ELSE found}}) :
          found \in {OrElse(_clean_value(from_label), NationalitySegmentLoop(lines, 1))}})

ResidenceAsRecovered(residence, place_of_origin) == residence

\* if not data["residence"]: data["residence"] = data["place_of_origin"]
ResidenceOrOrigin(residence, place_of_origin) ==
    IF residence = <<>> THEN place_of_origin ELSE residence

\* the aliases parse_data adds before it returns
WithAliases(d) ==
    [fullname |-> d.fullname, date_of_birth |-> d.date_of_birth, sex |-> d.sex,
     nationality |-> d.nationality, place_of_origin |-> d.place_of_origin,
     no |-> d.no, residence |-> d.residence, expiry_date |-> d.expiry_date,
     full_name |-> d.fullname, id_number |-> d.no, dob |-> d.date_of_birth,
     gender |-> d.sex, ho_va_ten |-> d.fullname, so |-> d.no,
     ngay_sinh |-> d.date_of_birth, gioi_tinh |-> d.sex,
     quoc_tich |-> d.nationality, que_quan |-> d.place_of_origin,
     noi_thuong_tru |-> d.residence, co_gia_tri_den |-> d.expiry_date]

\* what the caller gets when parse_data raises
Raised == [exception |-> "IndexError"]

parse_data(list) ==
    Only({Only({Only({IF IndexError \in {no_value, dob_value, sex_value, name_value,
                                         nationality_value, expiry_value}
                      THEN Raised
                      ELSE Only({WithAliases(
                                   [fullname        |-> Fullname(lines, name_value),
                                    date_of_birth   |-> date_of_birth,
                                    sex             |-> Sex(sex_value, normalized_full_text),
                                    nationality     |-> Nationality(lines,
                                                                    normalized_full_text,
                                                                    nationality_value),
                                    place_of_origin |-> place_of_origin,
                                    no              |-> IdNumber(lines, full_text, no_value),
                                    residence       |-> ResidenceOrOrigin(
                                                           Residence(lines, normalized_lines),
                                                           place_of_origin),
                                    expiry_date     |-> OrElse(expiry_value,
                                                               ExpiryFallback(dates,
                                                                              date_of_birth))]) :
                                 date_of_birth \in {DateOfBirth(full_text, dob_value)},
                                 place_of_origin \in {PlaceOfOrigin(lines, normalized_lines)},
                                 dates \in {FindAllDates(full_text, 1)}}) :
                      normalized_full_text \in {_normalize_text(full_text)},
                      no_value \in {_extract_value_from_lines(lines, normalized_lines,
                                                              no_labels)},
                      dob_value \in {LabelledDateLoop(lines, normalized_lines,
                                                      dob_labels, 1)},
                      sex_value \in {_extract_value_from_lines(lines, normalized_lines,
                                                               sex_labels)},
                      name_value \in {NameLoop(lines, normalized_lines, 1)},
                      nationality_value \in
                          {_extract_value_from_lines(lines, normalized_lines,
                                                     nationality_labels)},
                      expiry_value \in {LabelledDateLoop(lines, normalized_lines,
                                                         expiry_labels, 1)}}) :
                full_text \in {JoinWith(lines, <<" ">>)},
                normalized_lines \in {[i \in 1..Len(lines) |-> _normalize_text(lines[i])]}}) :
          lines \in {ParseLines(list)}})

----------------------------------------------------------------------------
(* IDCardOCR.extract_text.  The image is modelled by what the reader       *)
(* returns for each of its variants; a bounding box is a list of <<x, y>>. *)

ExtractThreshold == 20

\* the position in best_by_text of the entry with this key; 0 when absent
KeyIndex(best, key) == FirstOf({n \in 1..Len(best) : best[n][1] = key})

\* conf > float(existing[2])
BetterNever(conf, existing) == FALSE

Better(conf, existing) == conf > existing[3]

\* the loop over the items of every variant; best_by_text is the list of
\* <<key, item>> in the order the keys were first inserted
RECURSIVE BestByText(_, _, _)
BestByText(items, i, best) ==
    IF i > Len(items) THEN best
    ELSE IF Len(items[i]) < 3 THEN BestByText(items, i + 1, best)
    ELSE Only({IF text = <<>> \/ conf < ExtractThreshold
               THEN BestByText(items, i + 1, best)
               ELSE Only({Only({IF at = 0
                                THEN BestByText(items, i + 1,
                                                Append(best, <<key, items[i]>>))
                                ELSE IF Better(conf, best[at][2])
                                THEN BestByText(items, i + 1,
                                                [best EXCEPT ![at] = <<key, items[i]>>])
                                ELSE BestByText(items, i + 1, best) :
                                at \in {KeyIndex(best, key)}}) :
                          key \in {_normalize_text(text)}}) :
               text \in {Strip(items[i][2], SpaceChars)},
               conf \in {items[i][3]}})

reading_order_key(item) ==
    <<Min({item[1][n][2] : n \in 1..Len(item[1])}),
      Min({item[1][n][1] : n \in 1..Len(item[1])})>>

\* merged.sort(key=reading_order_key): a stable sort
RECURSIVE SortReadingOrder(_)
SortReadingOrder(items) ==
    IF items = <<>> THEN <<>>
    ELSE LET sorted == SortReadingOrder(SubSeq(items, 1, Len(items) - 1))
             last   == items[Len(items)]
             before == {n \in 1..Len(sorted) :
                           ~KeyLess(reading_order_key(last), reading_order_key(sorted[n]))}
             cut    == IF before = {} THEN 0 ELSE Max(before)
         IN  SubSeq(sorted, 1, cut) \o <<last>> \o SubSeq(sorted, cut + 1, Len(sorted))

extract_text(image) ==
    Only({SortReadingOrder([n \in 1..Len(best_by_text) |-> best_by_text[n][2]]) :
          best_by_text \in {BestByText(Flatten(image), 1, <<>>)}})

----------------------------------------------------------------------------
(* apply_template_aliases of the application.  A dict is a function from   *)
(* its keys.                                                               *)

AliasOf ==
    ("full_name" :> "fullname") @@ ("id_number" :> "no") @@
    ("dob" :> "date_of_birth") @@ ("gender" :> "sex") @@
    ("ho_va_ten" :> "fullname") @@ ("so" :> "no") @@
    ("ngay_sinh" :> "date_of_birth") @@ ("gioi_tinh" :> "sex") @@
    ("quoc_tich" :> "nationality") @@ ("que_quan" :> "place_of_origin") @@
    ("noi_thuong_tru" :> "residence") @@ ("co_gia_tri_den" :> "expiry_date")

\* data.get(key, "")
Get(d, key) == IF key \in DOMAIN d THEN d[key] ELSE <<>>

apply_template_aliases_keep_stale(d) ==
    [k \in DOMAIN d \cup DOMAIN AliasOf |->
        IF k \in DOMAIN d THEN d[k] ELSE Get(d, AliasOf[k])]

apply_template_aliases(d) ==
    [k \in DOMAIN d \cup DOMAIN AliasOf |->
        IF k \in DOMAIN AliasOf THEN Get(d, AliasOf[k]) ELSE d[k]]

----------------------------------------------------------------------------
(* The web front end (app.py).  An uploaded file is its name and what its  *)
(* QR code holds.  IDCardQRReader is not part of id_card_ocr.py; what      *)
(* process_image does is taken from the description of the QR pipeline:    *)
(* the payload is split at "|", fewer than seven fields are a format       *)
(* error, the two dates are reformatted, the nationality is the canonical  *)
(* name and the place of origin is the residence.                          *)

\* an image in which no QR code is found
NoQr == <<"no QR">>

\* payload.split('|')
RECURSIVE SplitFields(_)
SplitFields(payload) ==
    Only({IF p = 0 THEN <<payload>>
          ELSE <<SubSeq(payload, 1, p - 1)>>
               \o SplitFields(SubSeq(payload, p + 1, Len(payload))) :
          p \in {FirstOf({i \in 1..Len(payload) : payload[i] = "|"})}})

QrFieldCount == 7

\* DDMMYYYY as DD/MM/YYYY; the empty text for any other length
QrDate(raw) ==
    IF Len(raw) = 8
    THEN SubSeq(raw, 1, 2) \o <<"/">> \o SubSeq(raw, 3, 4) \o <<"/">> \o SubSeq(raw, 5, 8)
    ELSE <<>>

\* the record of an image, or the exception that process_image raises
process_image(image) ==
    IF image.qr = NoQr THEN [exception |-> "no QR found"]
    ELSE Only({IF Len(parts) < QrFieldCount THEN [exception |-> "format"]
               ELSE [no |-> parts[1], old_id |-> parts[2], fullname |-> parts[3],
                     date_of_birth |-> QrDate(parts[4]), sex |-> parts[5],
                     residence |-> parts[6], issue_date |-> QrDate(parts[7]),
                     nationality |-> VietNam, place_of_origin |-> parts[6],
                     expiry_date |-> <<>>] :
               parts \in {SplitFields(image.qr)}})

\* try: data = qr_reader.process_image(...); return data; except: raise
run_qr_on_upload(uploaded_file) == process_image(uploaded_file)

IsException(outcome) == "exception" \in DOMAIN outcome

\* the fields of the review form
FormFields ==
    {"no", "old_id", "fullname", "date_of_birth", "sex", "nationality",
     "issue_date", "expiry_date", "residence"}

\* st.text_input(label, value=..., key=...): what the user typed into this
\* widget when that started the script run, else the value it shows
text_input(value, item, field) ==
    IF trigger.kind = "edit" /\ trigger.item = item /\ trigger.field = field
    THEN trigger.value
    ELSE value

\* the record of item number item after the form has assigned its fields
ReviewFields(d, item) ==
    [k \in DOMAIN d \cup FormFields |->
        IF k \in FormFields THEN text_input(Get(d, k), item, k) ELSE d[k]]
----------------------------------------------------------------------------
(* What the specifications share.                                          *)

TextsUpTo(chars, n) == UNION {[1..k -> chars] : k \in 0..n}

SeqsUpTo(S, n) == UNION {[1..k -> S] : k \in 0..n}

\* the front end before its first script run
NoSession ==
    /\ uploaded_images = <<>>
    /\ idx = 0
    /\ results = <<>>
    /\ batch_results = <<>>
    /\ stdout = <<>>
    /\ trigger = [kind |-> "none"]
    /\ archive = <<>>
    /\ runs = 0

\* the variables of the pipeline, for a specification that calls one function
Idle ==
    /\ NoSession
    /\ observations = <<>>
    /\ merged = <<>>
    /\ text_list = <<>>
    /\ data = <<>>

----------------------------------------------------------------------------
(* Normalising a text, and normalising the result again.                   *)

MaxNormLen == 4

NormChars == {"a", "B", "A!", "o^'", "U+0301", " ", "TAB", "NBSP"}

InitNorm ==
    /\ pc = "normalize"
    /\ arg \in TextsUpTo(NormChars, MaxNormLen)
    /\ ret = <<>>
    /\ ret2 = <<>>
    /\ Idle

NormalizeText ==
    /\ pc = "normalize"
    /\ ret' = _normalize_text(arg)
    /\ pc' = "normalized"
    /\ UNCHANGED <<arg, ret2, observations, merged, text_list, data>>
    /\ UNCHANGED app_state

NormalizeAgain ==
    /\ pc = "normalized"
    /\ ret2' = _normalize_text(ret)
    /\ pc' = "renormalized"
    /\ UNCHANGED <<arg, ret, observations, merged, text_list, data>>
    /\ UNCHANGED app_state

NextNorm == NormalizeText \/ NormalizeAgain

SpecNorm == InitNorm /\ [][NextNorm]_vars

\* C4: _normalize_text is idempotent: normalising a normalised text returns
\* the same text.
C4_NormalizeIdempotent == pc = "renormalized" => ret2 = ret

\* a text with an upper-case accented letter and a whitespace run, which
\* normalisation changes, normalised twice
C4_Witness ==
    /\ pc = "renormalized"
    /\ \E i \in 1..Len(arg) : arg[i] \in DOMAIN Decomposition \ {"NBSP"}
    /\ \E i \in 1..(Len(arg) - 1) : IsSpace(arg[i]) /\ IsSpace(arg[i + 1])
    /\ Len(ret) > 1
    /\ ret # arg
----------------------------------------------------------------------------
(* Formatting a compact date DDMMYYYY.                                     *)

MaxDayArg == 33

MaxMonthArg == 14

YearMargin == 2

YearArgs ==
    {0, 9999} \cup ((1900 - YearMargin)..(1900 + YearMargin))
              \cup ((2100 - YearMargin)..(2100 + YearMargin))

\* the eight digits of a day, a month and a year
CompactText(day, month, year) ==
    <<DigitChar[(day \div 10) + 1], DigitChar[(day % 10) + 1],
      DigitChar[(month \div 10) + 1], DigitChar[(month % 10) + 1],
      DigitChar[(year \div 1000) + 1], DigitChar[((year \div 100) % 10) + 1],
      DigitChar[((year \div 10) % 10) + 1], DigitChar[(year % 10) + 1]>>

InitDate ==
    /\ pc = "compact"
    /\ \E day \in 0..MaxDayArg, month \in 0..MaxMonthArg, year \in YearArgs :
          arg = CompactText(day, month, year)
    /\ ret = <<>>
    /\ ret2 = <<>>
    /\ Idle

NormalizeCompactDate ==
    /\ pc = "compact"
    /\ ret' = _normalize_compact_date(arg)
    /\ pc' = "formatted"
    /\ UNCHANGED <<arg, ret2, observations, merged, text_list, data>>
    /\ UNCHANGED app_state

NextDate == NormalizeCompactDate

SpecDate == InitDate /\ [][NextDate]_vars

ArgDay == 10 * DigitVal[arg[1]] + DigitVal[arg[2]]

ArgMonth == 10 * DigitVal[arg[3]] + DigitVal[arg[4]]

ArgYear ==
    1000 * DigitVal[arg[5]] + 100 * DigitVal[arg[6]]
    + 10 * DigitVal[arg[7]] + DigitVal[arg[8]]

ArgInRange ==
    /\ 1 <= ArgDay /\ ArgDay <= 31
    /\ 1 <= ArgMonth /\ ArgMonth <= 12
    /\ 1900 <= ArgYear /\ ArgYear <= 2100

\* C5: for an 8-digit text DDMMYYYY, _normalize_compact_date returns
\* DD/MM/YYYY, with the digits of the input, when 1 <= day <= 31,
\* 1 <= month <= 12 and 1900 <= year <= 2100, and the empty text otherwise.
C5_CompactDate ==
    pc = "formatted" =>
        ret = IF ArgInRange
              THEN <<arg[1], arg[2], "/", arg[3], arg[4], "/",
                     arg[5], arg[6], arg[7], arg[8]>>
              ELSE <<>>

\* the last day of a month in the last year of the range, formatted
C5_Witness ==
    /\ pc = "formatted"
    /\ arg = <<"3", "1", "1", "2", "2", "1", "0", "0">>
    /\ ret = <<"3", "1", "/", "1", "2", "/", "2", "1", "0", "0">>

----------------------------------------------------------------------------
(* Voting on the identity number.                                          *)

MaxCandidates == 3

\* two numbers with a leading zero, two without, one written with spaces,
\* one of 11 and one of 13 digits
IdCandidates ==
    { <<"0", "7", "9", "1", "2", "3", "4", "5", "6", "7", "8", "9">>,
      <<"0", "1", "2", "3", "4", "5", "6", "7", "8", "9", "0", "1">>,
      <<"1", "7", "9", "1", "2", "3", "4", "5", "6", "7", "8", "9">>,
      <<"2", "7", "9", "1", "2", "3", "4", "5", "6", "7", "8", "9">>,
      <<"0", "7", "9", "1", " ", "2", "3", "4", "5", " ", "6", "7", "8", "9">>,
      <<"1", "7", "9", "1", "2", "3", "4", "5", "6", "7", "8">>,
      <<"1", "7", "9", "1", "2", "3", "4", "5", "6", "7", "8", "9", "0">> }

InitId ==
    /\ pc = "vote"
    /\ arg \in SeqsUpTo(IdCandidates, MaxCandidates)
    /\ ret = <<>>
    /\ ret2 = <<>>
    /\ Idle

ChooseBestId ==
    /\ pc = "vote"
    /\ ret' = _choose_best_id(arg)
    /\ pc' = "voted"
    /\ UNCHANGED <<arg, ret2, observations, merged, text_list, data>>
    /\ UNCHANGED app_state

NextId == ChooseBestId

SpecId == InitId /\ [][NextId]_vars

\* the candidates of arg that are 12 digits once their non-digits are removed
ArgIds ==
    {OnlyDigits(arg[i]) : i \in {j \in 1..Len(arg) : Len(OnlyDigits(arg[j])) = IdLength}}

ArgVotes(id) ==
    Cardinality({i \in 1..Len(arg) : OnlyDigits(arg[i]) = id})

ArgWinners == {id \in ArgIds : \A other \in ArgIds : ArgVotes(other) <= ArgVotes(id)}

\* the result is a 12-digit candidate with the highest count (the empty text
\* when there is no 12-digit candidate)
BestIdHasMostVotes ==
    IF ArgIds = {} THEN ret = <<>> ELSE ret \in ArgWinners

----------------------------------------------------------------------------
(* Deduplicating the parts of a place.                                     *)

MaxPlaceParts == 3

\* parts that differ in case or in diacritics only, a filler word, an empty
\* part, a part with characters to strip and one that holds a semicolon
PlaceParts ==
    { <<"H", "o!", "a", " ", "N", "a", "m">>,
      <<"h", "o!", "a", " ", "n", "a", "m">>,
      <<"H", "O", "A", " ", "N", "A", "M">>,
      <<"T", "a^", "n", " ", "T", "h", "a.", "n", "h">>,
      <<"Q", "u", "a.^", "n">>,
      <<>>,
      <<" ", "T", "a", "m", " ", "K", "y!", ".">>,
      <<"T", "a^", "n", " ", "T", "h", "a.", "n", "h", ";", "H", "o!", "a", " ", "N", "a", "m">> }

InitDedupe ==
    /\ pc = "dedupe"
    /\ \E parts \in SeqsUpTo(PlaceParts, MaxPlaceParts) : arg = JoinParts(parts)
    /\ ret = <<>>
    /\ ret2 = <<>>
    /\ Idle

DedupePlaceText ==
    /\ pc = "dedupe"
    /\ ret' = _dedupe_place_text(arg)
    /\ pc' = "deduped"
    /\ UNCHANGED <<arg, ret2, observations, merged, text_list, data>>
    /\ UNCHANGED app_state

NextDedupe == DedupePlaceText

SpecDedupe == InitDedupe /\ [][NextDedupe]_vars

\* the comma/semicolon-separated parts of a text, each without the
\* characters _dedupe_place_text strips
PartsOf(text) ==
    IF text = <<>> THEN <<>>
    ELSE LET raw == SplitParts(text)
         IN  [i \in 1..Len(raw) |-> Strip(raw[i], {" ", ".", ",", "-"})]

\* the parts of arg that are kept: not empty, not a filler word, and no
\* earlier part has the same normalized form
KeptParts ==
    LET parts == PartsOf(arg)
    IN  {i \in 1..Len(parts) :
            /\ parts[i] # <<>>
            /\ ~InSeq(_normalize_text(parts[i]), PlaceFillers)
            /\ \A j \in 1..(i - 1) :
                  parts[j] = <<>> \/ _normalize_text(parts[j]) # _normalize_text(parts[i])}

\* C3: the result of _dedupe_place_text holds, in their original order, the
\* first occurrence of each part up to equality of normalized form and
\* nothing else (empty parts and the filler words que, quan, pho, thi are
\* dropped), so no two parts of the result have the same normalized form;
\* 'Hoa Nam, hoa nam, Tan Thanh' (with their diacritics) yields
\* 'Hoa Nam, Tan Thanh'.
C3_DedupeFirstOccurrences ==
    pc = "deduped" =>
        LET parts  == PartsOf(arg)
            result == PartsOf(ret)
        IN  /\ Len(result) = Cardinality(KeptParts)
            /\ \A i \in KeptParts :
                  result[Cardinality({j \in KeptParts : j <= i})] = parts[i]
            /\ \A i, j \in 1..Len(result) :
                  i # j => _normalize_text(result[i]) # _normalize_text(result[j])
            /\ ret = JoinParts(result)
            /\ arg = <<"H", "o!", "a", " ", "N", "a", "m", ",", " ",
                       "h", "o!", "a", " ", "n", "a", "m", ",", " ",
                       "T", "a^", "n", " ", "T", "h", "a.", "n", "h">>
               => ret = <<"H", "o!", "a", " ", "N", "a", "m", ",", " ",
                          "T", "a^", "n", " ", "T", "h", "a.", "n", "h">>

\* the example of the claim, deduplicated
C3_Witness ==
    /\ pc = "deduped"
    /\ arg = <<"H", "o!", "a", " ", "N", "a", "m", ",", " ",
               "h", "o!", "a", " ", "n", "a", "m", ",", " ",
               "T", "a^", "n", " ", "T", "h", "a.", "n", "h">>
    /\ ret = <<"H", "o!", "a", " ", "N", "a", "m", ",", " ",
               "T", "a^", "n", " ", "T", "h", "a.", "n", "h">>


----------------------------------------------------------------------------
(* Parsing a document: parse_data on a list of lines or of observations.   *)

ParseData ==
    /\ pc = "parse"
    /\ data' = parse_data(text_list)
    /\ pc' = IF data' = Raised THEN "raised" ELSE "parsed"
    /\ UNCHANGED <<arg, ret, ret2, observations, merged, text_list>>
    /\ UNCHANGED app_state

NextParse == ParseData

\* a document of lines, about to be parsed
ParseOf(tuples, items) ==
    /\ pc = "parse"
    /\ text_list = [tuples |-> tuples, items |-> items]
    /\ arg = <<>>
    /\ ret = <<>>
    /\ ret2 = <<>>
    /\ observations = <<>>
    /\ merged = <<>>
    /\ data = <<>>
    /\ NoSession

Lines == ParseLines(text_list)

NormalizedLines == [i \in 1..Len(Lines) |-> _normalize_text(Lines[i])]

----------------------------------------------------------------------------
(* The place of origin.                                                    *)

MaxOriginLines == 3

\* the label without a value, short and long places, a line with a stop
\* label, a noise word and a date
OriginLines ==
    { <<"Q", "u", "e^", " ", "q", "u", "a'", "n", ":">>,
      <<"H", "a!", " ", "N", "o.^", "i">>,
      <<"V", "i", "e.^", "t", " ", "N", "a", "m">>,
      <<"G", "i", "o*'", "i", " ", "t", "i'", "n", "h", ":", " ", "N",
        "a", "m">>,
      <<"T", "a", "m", " ", "K", "y!", ",", " ", "Q", "u", "a?", "n",
        "g", " ", "N", "a", "m">>,
      <<"Q", "u", "a.^", "n">>,
      <<"0", "1", "/", "0", "7", "/", "2", "0", "0", "5">> }

InitOrigin == \E items \in SeqsUpTo(OriginLines, MaxOriginLines) : ParseOf(FALSE, items)

SpecOrigin == InitOrigin /\ [][NextParse]_vars

OriginLabelLine == FirstLabelled(NormalizedLines, origin_labels)

\* the line at which the value lines of the origin end: the first line after
\* the label line that holds a stop label or a date, else the end of the text
OriginStopLine ==
    LET stops == {j \in (OriginLabelLine + 1)..Len(Lines) :
                     \/ _line_has_any_label(NormalizedLines[j], stop_labels)
                     \/ HasDate(Lines[j])}
    IN  IF stops = {} THEN Len(Lines) + 1 ELSE Min(stops)

\* the cleaned value lines between the label line and the stop line that
\* are not noise, at most MaxOriginParts of them
OriginValueLines ==
    LET cleaned == [j \in 1..Len(Lines) |->
                       _clean_value(Strip(Lines[j], {" ", ",", ".", "-"}))]
        between == SelectSeq([j \in 1..(OriginStopLine - OriginLabelLine - 1) |->
                                 cleaned[OriginLabelLine + j]],
                             LAMBDA v : v # <<>> /\ ~_is_noise_or_label(v))
    IN  SubSeq(between, 1, Min({Len(between), MaxOriginParts}))

OriginLabelOnly ==
    /\ OriginLabelLine > 0
    /\ _clean_value(_extract_after_label(Lines[OriginLabelLine], origin_labels)) = <<>>

\* value lines, then a line with a stop label
OriginStopLabelFollows ==
    /\ OriginValueLines # <<>>
    /\ OriginStopLine <= Len(Lines)
    /\ _line_has_any_label(NormalizedLines[OriginStopLine], stop_labels)

OriginExample ==
    << <<"Q", "u", "e^", " ", "q", "u", "a'", "n", ":">>,
       <<"H", "a!", " ", "N", "o.^", "i">>,
       <<"G", "i", "o*'", "i", " ", "t", "i'", "n", "h", ":", " ", "N", "a", "m">> >>

OriginLongExample ==
    << <<"Q", "u", "e^", " ", "q", "u", "a'", "n", ":">>,
       <<"H", "a!", " ", "N", "o.^", "i">>,
       <<"V", "i", "e.^", "t", " ", "N", "a", "m">> >>

HaNoi == <<"H", "a!", " ", "N", "o.^", "i">>

\* C2 as the specification states it: the value lines before the stop-label
\* line are the place of origin, and the lines 'Que quan:', 'Ha Noi',
\* 'Gioi tinh: Nam' (with their diacritics) give 'Ha Noi'.
C2_OriginIsValueLines ==
    (pc = "parsed" /\ OriginLabelOnly /\ OriginStopLabelFollows) =>
        /\ data.place_of_origin = _dedupe_place_text(JoinParts(OriginValueLines))
        /\ text_list.items = OriginExample => data.place_of_origin = HaNoi

\* C2, amended: with a label line that carries no value, the place of origin
\* is built from the value lines between the label line and the first line
\* with a stop label or a date, and from no other line; the joined value
\* lines are kept, deduplicated, only when they hold a comma or a semicolon
\* or are at least MinLocationLength characters long, and the place of
\* origin is empty otherwise, as it is for the lines 'Que quan:', 'Ha Noi',
\* 'Gioi tinh: Nam', whereas 'Que quan:', 'Ha Noi', 'Viet Nam' give
\* 'Ha Noi, Viet Nam'.
C2_OriginStopsAtStopLabel ==
    (pc = "parsed" /\ OriginLabelOnly) =>
        LET joined == _clean_value(JoinParts(OriginValueLines))
            shaped == \/ \E i \in 1..Len(joined) : joined[i] \in {",", ";"}
                      \/ Len(joined) >= MinLocationLength
        IN  /\ data.place_of_origin =
                  IF OriginValueLines # <<>> /\ shaped
                  THEN _dedupe_place_text(joined)
                  ELSE <<>>
            /\ \A k \in 1..Len(PartsOf(data.place_of_origin)) :
                  \E j \in (OriginLabelLine + 1)..(OriginStopLine - 1) :
                      Contains(_normalize_text(PartsOf(data.place_of_origin)[k]),
                               NormalizedLines[j])
            /\ text_list.items = OriginExample => data.place_of_origin = <<>>
            /\ text_list.items = OriginLongExample =>
                  data.place_of_origin = HaNoi \o <<",", " ">> \o VietNam

\* the value lines before a stop-label line became the place of origin
C2_Witness ==
    /\ pc = "parsed"
    /\ text_list.items =
          << <<"Q", "u", "e^", " ", "q", "u", "a'", "n", ":">>,
             <<"T", "a", "m", " ", "K", "y!", ",", " ", "Q", "u", "a?", "n", "g", " ",
               "N", "a", "m">>,
             <<"G", "i", "o*'", "i", " ", "t", "i'", "n", "h", ":", " ", "N", "a", "m">> >>
    /\ data.place_of_origin =
          <<"T", "a", "m", " ", "K", "y!", ",", " ", "Q", "u", "a?", "n", "g", " ",
            "N", "a", "m">>

----------------------------------------------------------------------------
(* The expiry date.                                                        *)

MaxExpiryLines == 3

\* a date of birth in compact and in slash form, two dates, the expiry label
\* without a date, a date with dots and a line without a date
ExpiryLines ==
    { <<"N", "g", "a!", "y", " ", "s", "i", "n", "h", ":", " ", "0", "1",
        "0", "7", "2", "0", "0", "5">>,
      <<"N", "g", "a!", "y", " ", "s", "i", "n", "h", ":", " ", "0", "1",
        "/", "0", "7", "/", "2", "0", "0", "5">>,
      <<"1", "1", "/", "0", "4", "/", "2", "0", "3", "1">>,
      <<"0", "1", "/", "0", "7", "/", "2", "0", "0", "5">>,
      <<"V", "a", "l", "i", "d", " ", "u", "n", "t", "i", "l">>,
      <<"1", ".", "7", ".", "2", "0", "0", "5">>,
      <<"H", "a!", " ", "N", "o.^", "i">> }

InitExpiry == \E items \in SeqsUpTo(ExpiryLines, MaxExpiryLines) : ParseOf(FALSE, items)

SpecExpiry == InitExpiry /\ [][NextParse]_vars

\* the dates of the document text, in the order they occur
DocumentDates == FindAllDates(JoinWith(Lines, <<" ">>), 1)

\* those that differ from the recovered date of birth
OtherDates == SelectSeq(DocumentDates, LAMBDA d : d # data.date_of_birth)

NoLabelledExpiry == LabelledDateLoop(Lines, NormalizedLines, expiry_labels, 1) = <<>>

\* C10: when no expiry label line yields a date, expiry_date is the last
\* date of the document text that differs from the recovered date of birth,
\* whenever there is such a date; and an expiry_date found this way is never
\* the date of birth.
C10_ExpiryIsLastOtherDate ==
    (pc = "parsed" /\ NoLabelledExpiry) =>
        /\ OtherDates # <<>> => data.expiry_date = OtherDates[Len(OtherDates)]
        /\ data.expiry_date # <<>> => data.expiry_date # data.date_of_birth

----------------------------------------------------------------------------
(* Any document: lines or observations, with labels that have no value,    *)
(* lines that hold no field and observations without a confidence.         *)

MaxParseLines == 3

\* a label of each lookup that reads the next line, two lines that hold no
\* field and a name
ParseTexts ==
    { <<"H", "o.", " ", "v", "a!", " ", "t", "e^", "n">>,
      <<"N", "g", "a!", "y", " ", "s", "i", "n", "h">>,
      <<"G", "i", "o*'", "i", " ", "t", "i'", "n", "h">>,
      <<"S", "o^'">>,
      <<"V", "a", "l", "i", "d", " ", "u", "n", "t", "i", "l">>,
      <<"x", "y", "z">>,
      <<>>,
      <<"N", "G", "U", "Y", "E^~", "N", " ", "V", "A(", "N", " ", "A">> }

Box == << <<0, 0>>, <<5, 1>> >>

ParseObservations ==
    { <<Box, <<"H", "o.", " ", "v", "a!", " ", "t", "e^", "n">>, 90>>,
      <<Box, <<"N", "G", "U", "Y", "E^~", "N", " ", "V", "A(", "N", " ", "A">>, 90>>,
      <<Box, <<"x", "y", "z">> >>,
      <<Box, <<"N", "g", "a!", "y", " ", "s", "i", "n", "h">>, 10>> }

InitParse ==
    \/ \E items \in SeqsUpTo(ParseTexts, MaxParseLines) : ParseOf(FALSE, items)
    \/ \E items \in SeqsUpTo(ParseObservations, MaxParseLines) : ParseOf(TRUE, items)

SpecParse == InitParse /\ [][NextParse]_vars

IsText(value) == DOMAIN value = 1..Len(value) /\ \A i \in 1..Len(value) : value[i] \in Alphabet

\* the lines from which no field can be recovered
NothingToRecover ==
    \A i \in 1..Len(Lines) : Lines[i] \in {<<>>, <<"x", "y", "z">>}

\* C7: parse_data returns, without raising, a mapping with the 8 canonical
\* keys and the 12 alias keys, each a text, whatever the list of lines or of
\* observations; a field that is not recovered is the empty text: all of them
\* when the lines hold nothing, the labelled fields when their label is all
\* there is, the dates when the text has no digit.
C7_AllKeysNeverRaises ==
    /\ pc # "raised"
    /\ pc = "parsed" =>
          /\ DOMAIN data = CanonicalKeys \cup AliasKeys
          /\ \A k \in CanonicalKeys \cup AliasKeys : IsText(data[k])
          /\ NothingToRecover => \A k \in CanonicalKeys \cup AliasKeys : data[k] = <<>>
          /\ Len(Lines) = 1 /\ ~IsUppercaseLine(Lines[1]) =>
                \A k \in CanonicalKeys \cup AliasKeys : data[k] = <<>>
          /\ (\A i \in 1..Len(Lines) : ~HasDigit(Lines[i])) =>
                data.date_of_birth = <<>> /\ data.expiry_date = <<>>

\* a document that ends with a label, which has no next line to read, was
\* parsed; its name is the line in capitals
C7_Witness ==
    /\ pc = "parsed"
    /\ ~text_list.tuples
    /\ Len(Lines) = MaxParseLines
    /\ Lines[Len(Lines)] = <<"H", "o.", " ", "v", "a!", " ", "t", "e^", "n">>
    /\ data.fullname = <<"N", "G", "U", "Y", "E^~", "N", " ", "V", "A(", "N", " ", "A">>
    /\ data.date_of_birth = <<>>

----------------------------------------------------------------------------
(* The visual pipeline: extract_text, then parse_data on what it returns.  *)

MaxObservations == 3

BoxTop == << <<0, 0>>, <<5, 1>> >>

BoxLow == << <<0, 2>>, <<5, 3>> >>

\* two observations with one key, observations below, at and between the
\* two thresholds, one whose text is blank and one without a confidence
ObservationPool ==
    { <<BoxLow, <<"H", "a!", " ", "N", "o.^", "i">>, 90>>,
      <<BoxTop, <<"H", "A!", " ", "N", "O.^", "I">>, 95>>,
      <<BoxLow, <<"N", "a", "m">>, 19>>,
      <<BoxTop, <<"N", "a", "m">>, 20>>,
      <<BoxTop, <<" ">>, 90>>,
      <<BoxLow, <<"N", "a", "m">> >> }

\* the reader's results for two variants of the image
InitPipeline ==
    /\ pc = "extract"
    /\ \E all \in SeqsUpTo(ObservationPool, MaxObservations) :
          \E cut \in 0..Len(all) :
              observations = <<SubSeq(all, 1, cut), SubSeq(all, cut + 1, Len(all))>>
    /\ merged = <<>>
    /\ text_list = [tuples |-> TRUE, items |-> <<>>]
    /\ data = <<>>
    /\ arg = <<>>
    /\ ret = <<>>
    /\ ret2 = <<>>
    /\ NoSession

ExtractText ==
    /\ pc = "extract"
    /\ merged' = extract_text(observations)
    /\ text_list' = [tuples |-> TRUE, items |-> merged']
    /\ pc' = "parse"
    /\ UNCHANGED <<arg, ret, ret2, observations, data>>
    /\ UNCHANGED app_state

NextPipeline == ExtractText \/ ParseData

SpecPipeline == InitPipeline /\ [][NextPipeline]_vars

\* the observations of all variants that extract_text does not discard
Readable ==
    SelectSeq(Flatten(observations),
              LAMBDA item : /\ Len(item) >= 3
                            /\ Strip(item[2], SpaceChars) # <<>>
                            /\ item[3] >= ExtractThreshold)

KeyOf(item) == _normalize_text(Strip(item[2], SpaceChars))

\* C8: what extract_text returns holds at most one observation per
\* normalized text, and the one it holds for a key has the greatest
\* confidence of the observations of all variants that share the key.
C8_OnePerKeyMaxConfidence ==
    pc # "extract" =>
        /\ \A i, j \in 1..Len(merged) : i # j => KeyOf(merged[i]) # KeyOf(merged[j])
        /\ \A i \in 1..Len(merged) :
              /\ \E n \in 1..Len(Readable) : Readable[n] = merged[i]
              /\ \A n \in 1..Len(Readable) :
                    KeyOf(Readable[n]) = KeyOf(merged[i]) => Readable[n][3] <= merged[i][3]
        /\ \A n \in 1..Len(Readable) :
              \E i \in 1..Len(merged) : KeyOf(merged[i]) = KeyOf(Readable[n])

\* the second variant held the better of two observations with one key, and
\* it is the one returned
C8_Witness ==
    /\ pc = "parse"
    /\ observations = << << <<BoxLow, <<"H", "a!", " ", "N", "o.^", "i">>, 90>> >>,
                         << <<BoxTop, <<"H", "A!", " ", "N", "O.^", "I">>, 95>> >> >>
    /\ merged = << <<BoxTop, <<"H", "A!", " ", "N", "O.^", "I">>, 95>> >>

\* C9: in the pipeline an observation is discarded exactly when its text is
\* empty, its confidence is below 0.2 or an observation with the same key
\* and a higher confidence exists: every observation that extract_text
\* returns contributes its text as a line to the parsing of the fields.
C9_SurvivorsAreParsed ==
    pc = "parsed" =>
        /\ Len(Lines) = Len(merged)
        /\ \A i \in 1..Len(merged) : Lines[i] = Strip(merged[i][2], SpaceChars)

\* the observations of all variants, in the order the reader gave them
AllObservations == Flatten(observations)

\* the texts of what extract_text returns for the observations in the order
\* that order gives them
TextsIn(order) ==
    Only({[n \in 1..Len(lines) |-> lines[n][2]] :
          lines \in {extract_text(<<[i \in 1..Len(AllObservations) |->
                                       AllObservations[order[i]]]>>)}})

Orders ==
    {order \in [1..Len(AllObservations) -> 1..Len(AllObservations)] :
        \A i, j \in 1..Len(AllObservations) : i # j => order[i] # order[j]}

\* C20: the lines that extract_text returns are ordered by the least y, then
\* the least x, of their boxes, and their texts are the same for every
\* order in which the same observations are given.
C20_OrderOfObservationsIrrelevant ==
    pc # "extract" =>
        /\ \A i \in 1..(Len(merged) - 1) :
              ~KeyLess(reading_order_key(merged[i + 1]), reading_order_key(merged[i]))
        /\ \A order \in Orders : TextsIn(order) = [n \in 1..Len(merged) |-> merged[n][2]]

----------------------------------------------------------------------------
(* Alias composition: apply_template_aliases on a record of the            *)
(* application, and the aliases parse_data adds to what it parsed.         *)

MaxMissing == 1

AliasValues == {<<>>, <<"A">>}

Stale == <<"o", "l", "d">>

\* a record with a value for every canonical field but at most MaxMissing
\* of them, with or without aliases left by an earlier composition
AliasRecords ==
    { [k \in (CanonicalKeys \ missing) \cup (IF stale THEN AliasKeys \cup {"old_id"} ELSE {})
          |-> IF k \in CanonicalKeys THEN values[k] ELSE Stale] :
        values \in [CanonicalKeys -> AliasValues],
        missing \in {m \in SUBSET CanonicalKeys : Cardinality(m) <= MaxMissing},
        stale \in BOOLEAN }

InitAlias ==
    \/ /\ pc = "alias"
       /\ arg \in AliasRecords
       /\ text_list = [tuples |-> FALSE, items |-> <<>>]
       /\ ret = <<>>
       /\ ret2 = <<>>
       /\ observations = <<>>
       /\ merged = <<>>
       /\ data = <<>>
       /\ NoSession
    \/ \E items \in SeqsUpTo(OriginLines, MaxOriginLines) : ParseOf(FALSE, items)

ApplyTemplateAliases ==
    /\ pc = "alias"
    /\ data' = apply_template_aliases(arg)
    /\ pc' = "aliased"
    /\ UNCHANGED <<arg, ret, ret2, observations, merged, text_list>>
    /\ UNCHANGED app_state

NextAlias == ApplyTemplateAliases \/ ParseData

SpecAlias == InitAlias /\ [][NextAlias]_vars

\* the alias keys and the canonical field of each, as the claim lists them
ClaimedAliases ==
    {<<"full_name", "fullname">>, <<"ho_va_ten", "fullname">>,
     <<"id_number", "no">>, <<"so", "no">>,
     <<"dob", "date_of_birth">>, <<"ngay_sinh", "date_of_birth">>,
     <<"gender", "sex">>, <<"gioi_tinh", "sex">>,
     <<"quoc_tich", "nationality">>, <<"que_quan", "place_of_origin">>,
     <<"noi_thuong_tru", "residence">>, <<"co_gia_tri_den", "expiry_date">>}

\* C6: after alias composition each of the 12 alias keys holds the value of
\* its canonical field (the empty text when apply_template_aliases is given
\* a record without that field), and the canonical fields are what they
\* were before: those of the record given to apply_template_aliases, and
\* what parse_data recovered.
C6_AliasesEqualCanonical ==
    /\ pc = "aliased" =>
          /\ DOMAIN data = DOMAIN arg \cup AliasKeys
          /\ \A pair \in ClaimedAliases :
                data[pair[1]] = IF pair[2] \in DOMAIN data THEN data[pair[2]] ELSE <<>>
          /\ \A k \in DOMAIN arg \ AliasKeys : data[k] = arg[k]
          /\ \A k \in CanonicalKeys : k \in DOMAIN data <=> k \in DOMAIN arg
    /\ pc = "parsed" =>
          /\ \A pair \in ClaimedAliases : data[pair[1]] = data[pair[2]]
          /\ data.place_of_origin = PlaceOfOrigin(Lines, NormalizedLines)
          /\ data.sex = Sex(_extract_value_from_lines(Lines, NormalizedLines, sex_labels),
                            _normalize_text(JoinWith(Lines, <<" ">>)))
          /\ Cardinality({pair[1] : pair \in ClaimedAliases}) = Cardinality(AliasKeys)

\* a record that held aliases of an earlier composition got the aliases of
\* its present fields
C6_Witness ==
    /\ pc = "aliased"
    /\ "full_name" \in DOMAIN arg
    /\ "fullname" \in DOMAIN arg
    /\ arg.full_name = Stale
    /\ arg.fullname = <<"A">>
    /\ data.full_name = <<"A">>
    /\ data.ho_va_ten = <<"A">>
    /\ "place_of_origin" \notin DOMAIN arg
    /\ data.que_quan = <<>>

----------------------------------------------------------------------------
(* The full name.                                                          *)

MaxNameLines == 3

\* the name label without a value, with a value that holds a digit, with a
\* clean value and with a noise word; a name, a line with digits and a noise
\* word
NameLines ==
    { <<"H", "o.", " ", "v", "a!", " ", "t", "e^", "n", ":">>,
      <<"H", "o.", " ", "v", "a!", " ", "t", "e^", "n", ":", " ", "N",
        "G", "U", "Y", "E^~", "N", " ", "V", "A(", "N", " ", "A", "1">>,
      <<"H", "o.", " ", "v", "a!", " ", "t", "e^", "n", ":", " ", "N",
        "g", "u", "y", "e^~", "n", " ", "V", "a(", "n", " ", "A">>,
      <<"H", "o.", " ", "v", "a!", " ", "t", "e^", "n", ":", " ", "Q",
        "u", "a.^", "n">>,
      <<"D-", "a.(", "n", "g", " ", "B", "a?", "o", " ", "K", "h", "o",
        "a">>,
      <<"K", "h", "o", "a", " ", "2", "0", "0", "5">>,
      <<"Q", "u", "a.^", "n">> }

InitName == \E items \in SeqsUpTo(NameLines, MaxNameLines) : ParseOf(FALSE, items)

SpecName == InitName /\ [][NextParse]_vars

\* the name that the name label yields, empty when it yields none
NameFromLabel == NameLoop(Lines, NormalizedLines, 1)

\* C11: a fullname recovered through a name label, from the value on the
\* label line or from the line that follows it, never holds a digit and is
\* never a value that _is_noise_or_label classifies as noise.
C11_LabelledNameIsClean ==
    (pc = "parsed" /\ NameFromLabel # <<>>) =>
        /\ data.fullname = NameFromLabel
        /\ ~HasDigit(data.fullname)
        /\ ~_is_noise_or_label(data.fullname)

----------------------------------------------------------------------------
(* The nationality.                                                        *)

MaxNationalityLines == 3

\* the nationality label without a value, with a foreign and with the
\* canonical value and with a gender token; the canonical name in two
\* spellings, a line that ends in the label and a line with the label and
\* its value behind another field
NationalityLines ==
    { <<"Q", "u", "o^'", "c", " ", "t", "i.", "c", "h", ":">>,
      <<"Q", "u", "o^'", "c", " ", "t", "i.", "c", "h", ":", " ", "L",
        "a!", "o">>,
      <<"Q", "u", "o^'", "c", " ", "t", "i.", "c", "h", ":", " ", "V",
        "i", "e.^", "t", " ", "N", "a", "m">>,
      <<"Q", "u", "o^'", "c", " ", "t", "i.", "c", "h", ":", " ", "N",
        "a", "m">>,
      <<"V", "i", "e.^", "t", " ", "N", "a", "m">>,
      <<"V", "I", "E", "T", "N", "A", "M">>,
      <<"N", "a", "m", " ", "Q", "u", "o^'", "c", " ", "t", "i.", "c", "h">>,
      <<"G", "i", "o*'", "i", " ", "t", "i'", "n", "h", " ", "N", "a",
        "m", " ", "Q", "u", "o^'", "c", " ", "t", "i.", "c", "h", " ",
        "L", "a!", "o">> }

InitNationality == \E items \in SeqsUpTo(NationalityLines, MaxNationalityLines) : ParseOf(FALSE, items)

SpecNationality == InitNationality /\ [][NextParse]_vars

\* the value the label or the segment yields, as it stands when the
\* canonical name is decided
RecoveredNationality ==
    Only({IF found = <<>> THEN <<>> ELSE NationalityFromLabelled(found) :
          found \in {OrElse(_clean_value(_extract_value_from_lines(Lines, NormalizedLines,
                                                                   nationality_labels)),
                            NationalitySegmentLoop(Lines, 1))}})

NamesVietNam(normalized) ==
    \/ Contains(<<"v", "i", "e", "t", " ", "n", "a", "m">>, normalized)
    \/ Contains(<<"v", "i", "e", "t", "n", "a", "m">>, normalized)

StrayToken(normalized) ==
    \/ Contains(<<"q", "u", "o", "c", " ", "t", "i", "c", "h">>, normalized)
    \/ Contains(<<"n", "a", "t", "i", "o", "n", "a", "l", "i", "t", "y">>, normalized)
    \/ normalized \in {<<"n", "a", "m">>, <<"m", "a", "l", "e">>}

NormalizedFullText == _normalize_text(JoinWith(Lines, <<" ">>))

\* C12 as stated: nationality is the canonical name whenever the recovered
\* value names Viet Nam, or the document text names it, or the recovered
\* value is a stray label or gender token.
C12_CanonicalWheneverNamed ==
    pc = "parsed" =>
        \E value \in {_normalize_text(RecoveredNationality)} :
            (\/ value # <<>> /\ NamesVietNam(value)
             \/ NamesVietNam(NormalizedFullText)
             \/ value # <<>> /\ StrayToken(value)) => data.nationality = VietNam

\* C12: nationality is the canonical name whenever the recovered value names
\* Viet Nam or is a stray label or gender token, or no value is recovered and
\* the document text holds 'viet nam'.
C12_CanonicalNationality ==
    pc = "parsed" =>
        \E value \in {_normalize_text(RecoveredNationality)} :
            (\/ value # <<>> /\ NamesVietNam(value)
             \/ value # <<>> /\ StrayToken(value)
             \/ /\ RecoveredNationality = <<>>
                /\ Contains(<<"v", "i", "e", "t", " ", "n", "a", "m">>, NormalizedFullText))
            => data.nationality = VietNam

\* no value by the label, the canonical name elsewhere in the text
C12_Witness ==
    /\ pc = "parsed"
    /\ FirstLabelled(NormalizedLines, nationality_labels) > 0
    /\ RecoveredNationality = <<>>
    /\ Contains(<<"v", "i", "e", "t", " ", "n", "a", "m">>, NormalizedFullText)
    /\ data.nationality = VietNam

\* text that stands in a line of the document as it was given, runs of
\* whitespace counted as one space
FromLines(value) ==
    \/ value = <<>>
    \/ \E i \in 1..Len(Lines) : Contains(value, CollapseWs(Lines[i]))

IsDateText(value) ==
    /\ Len(value) = 10
    /\ \A i \in 1..10 : IF i \in {3, 6} THEN value[i] = "/" ELSE IsDigit(value[i])

\* C19: every field value that parse_data returns is a canonical constant,
\* a reformatted date or a digit string, or text of the lines as they were
\* given; it is never text of the normalized form of a line.
C19_ValuesNotFromNormalizedText ==
    pc = "parsed" =>
        /\ data.nationality = VietNam \/ FromLines(data.nationality)
        /\ data.sex \in {<<>>, Nam, Nu}
        /\ FromLines(data.fullname)
        /\ \A k \in {"date_of_birth", "expiry_date"} : data[k] = <<>> \/ IsDateText(data[k])
        /\ OnlyDigits(data.no) = data.no \/ FromLines(data.no)
        /\ \A k \in {"place_of_origin", "residence"} :
              \A i \in 1..Len(PartsOf(data[k])) : FromLines(PartsOf(data[k])[i])

----------------------------------------------------------------------------
(* The front end: reading a batch of images, reviewing the records and    *)
(* building the archive of results.  A script run is started by one       *)
(* interaction of the user and runs from the read loop over the review    *)
(* form to the archive.                                                    *)

MaxImages == 2

MaxRuns == 3

\* an image with a full payload, one with five fields and one with dates of
\* the wrong length
ImagePool ==
    { [name |-> <<"a", ".", "j", "p", "g">>,
        qr |-> <<"0", "4", "9", "2", "0", "5", "0", "0", "0", "8", "6", "8",
                "|", "2", "0", "6", "4", "5", "4", "4", "9", "1", "|",
                "D-", "a.(", "n", "g", " ", "B", "a?", "o", " ", "K", "h",
                "o", "a", "|", "0", "1", "0", "7", "2", "0", "0", "5", "|",
                "N", "a", "m", "|", "H", "o!", "a", " ", "N", "a", "m",
                ",", " ", "T", "a", "m", " ", "K", "y!", "|", "1", "1",
                "0", "4", "2", "0", "2", "1">>],
      [name |-> <<"b", ".", "p", "n", "g">>,
        qr |-> <<"0", "4", "9", "2", "0", "5", "0", "0", "0", "8", "6", "8",
                "|", "2", "0", "6", "4", "5", "4", "4", "9", "1", "|",
                "D-", "a.(", "n", "g", " ", "B", "a?", "o", " ", "K", "h",
                "o", "a", "|", "0", "1", "0", "7", "2", "0", "0", "5", "|",
                "N", "a", "m">>],
      [name |-> <<"d", ".", "j", "p", "g">>,
        qr |-> <<"0", "0", "1", "0", "9", "9", "0", "0", "0", "0", "0", "1",
                "|", "|", "N", "g", "u", "y", "e^~", "n", " ", "V", "a(",
                "n", " ", "A", "|", "1", "0", "7", "1", "9", "9", "9", "|",
                "N", "a", "m", "|", "H", "a!", " ", "N", "o.^", "i", "|",
                "1", "1", "0", "4", "2", "0", "2", "1", "1">>] }

\* what the user types into a field
EditValues == {<<"L", "a!", "o">>}

InitApp ==
    /\ pc = "idle"
    /\ arg = <<>>
    /\ ret = <<>>
    /\ ret2 = <<>>
    /\ observations = <<>>
    /\ merged = <<>>
    /\ text_list = <<>>
    /\ data = <<>>
    /\ NoSession

\* st.file_uploader: the user chooses the images
Upload ==
    /\ pc = "idle"
    /\ uploaded_images = <<>>
    /\ uploaded_images' \in SeqsUpTo(ImagePool, MaxImages) \ {<<>>}
    /\ UNCHANGED <<pc, idx, results, batch_results, stdout, trigger, archive, runs>>
    /\ UNCHANGED ocr_state

\* the button that starts the batch read
ClickRead ==
    /\ pc = "idle"
    /\ uploaded_images # <<>>
    /\ runs < MaxRuns
    /\ runs' = runs + 1
    /\ trigger' = [kind |-> "read"]
    /\ results' = <<>>
    /\ idx' = 0
    /\ stdout' = Append(stdout, <<"start", Len(uploaded_images)>>)
    /\ pc' = "read"
    /\ UNCHANGED <<uploaded_images, batch_results, archive>>
    /\ UNCHANGED ocr_state

\* the loop ends at the first image that fails
ReadImageUntilError ==
    /\ pc = "read"
    /\ idx < Len(uploaded_images)
    /\ \E image_file \in {uploaded_images[idx + 1]} :
          \E extracted \in {run_qr_on_upload(image_file)} :
              IF IsException(extracted)
              THEN /\ results' = results
                   /\ stdout' = stdout \o << <<"processing", image_file.name>>,
                                             <<"failed", image_file.name>> >>
                   /\ idx' = Len(uploaded_images)
              ELSE /\ results' = Append(results,
                                        [image_name |-> image_file.name,
                                         data |-> apply_template_aliases(extracted)])
                   /\ stdout' = Append(stdout, <<"processing", image_file.name>>)
                   /\ idx' = idx + 1
    /\ UNCHANGED <<pc, uploaded_images, batch_results, trigger, archive, runs>>
    /\ UNCHANGED ocr_state

\* one turn of the read loop: the image is read, and its record appended or
\* its error reported
ReadImage ==
    /\ pc = "read"
    /\ idx < Len(uploaded_images)
    /\ \E image_file \in {uploaded_images[idx + 1]} :
          \E extracted \in {run_qr_on_upload(image_file)} :
              IF IsException(extracted)
              THEN /\ results' = results
                   /\ stdout' = stdout \o << <<"processing", image_file.name>>,
                                             <<"failed", image_file.name>> >>
              ELSE /\ results' = Append(results,
                                        [image_name |-> image_file.name,
                                         data |-> apply_template_aliases(extracted)])
                   /\ stdout' = Append(stdout, <<"processing", image_file.name>>)
    /\ idx' = idx + 1
    /\ UNCHANGED <<pc, uploaded_images, batch_results, trigger, archive, runs>>
    /\ UNCHANGED ocr_state

\* after the loop: the results are stored, and the review form follows when
\* there are any
FinishRead ==
    /\ pc = "read"
    /\ idx = Len(uploaded_images)
    /\ batch_results' = results
    /\ stdout' = Append(stdout, <<"complete", Len(results)>>)
    /\ idx' = 0
    /\ pc' = IF results # <<>> THEN "review" ELSE "idle"
    /\ UNCHANGED <<uploaded_images, results, trigger, archive, runs>>
    /\ UNCHANGED ocr_state

\* the user changes one field of the form, which starts a script run
EditField ==
    /\ pc = "idle"
    /\ batch_results # <<>>
    /\ runs < MaxRuns
    /\ runs' = runs + 1
    /\ \E item \in 0..(Len(batch_results) - 1), field \in FormFields, value \in EditValues :
          trigger' = [kind |-> "edit", item |-> item, field |-> field, value |-> value]
    /\ idx' = 0
    /\ pc' = "review"
    /\ UNCHANGED <<uploaded_images, results, batch_results, stdout, archive>>
    /\ UNCHANGED ocr_state

\* the button that builds the archive
ClickGenerate ==
    /\ pc = "idle"
    /\ batch_results # <<>>
    /\ runs < MaxRuns
    /\ runs' = runs + 1
    /\ trigger' = [kind |-> "generate"]
    /\ idx' = 0
    /\ pc' = "review"
    /\ UNCHANGED <<uploaded_images, results, batch_results, stdout, archive>>
    /\ UNCHANGED ocr_state

\* the form keeps the aliases the record had
ReviewItemKeepAliases ==
    /\ pc = "review"
    /\ idx < Len(batch_results)
    /\ batch_results' = [batch_results EXCEPT ![idx + 1].data = ReviewFields(@, idx)]
    /\ idx' = idx + 1
    /\ UNCHANGED <<pc, uploaded_images, results, stdout, trigger, archive, runs>>
    /\ UNCHANGED ocr_state

\* one turn of the review loop: the fields of the form are assigned to the
\* record and its aliases composed again
ReviewItem ==
    /\ pc = "review"
    /\ idx < Len(batch_results)
    /\ batch_results' = [batch_results EXCEPT
                            ![idx + 1].data = apply_template_aliases(ReviewFields(@, idx))]
    /\ idx' = idx + 1
    /\ UNCHANGED <<pc, uploaded_images, results, stdout, trigger, archive, runs>>
    /\ UNCHANGED ocr_state

\* after the review loop: the archive is built when its button started the
\* script run
FinishReview ==
    /\ pc = "review"
    /\ idx = Len(batch_results)
    /\ idx' = 0
    /\ IF trigger.kind = "generate"
       THEN pc' = "generate" /\ archive' = <<>>
       ELSE pc' = "idle" /\ UNCHANGED archive
    /\ UNCHANGED <<uploaded_images, results, batch_results, stdout, trigger, runs>>
    /\ UNCHANGED ocr_state

\* one turn of the archive loop: the record is handed to the template
GenerateDocx ==
    /\ pc = "generate"
    /\ idx < Len(batch_results)
    /\ archive' = Append(archive, [context |-> batch_results[idx + 1].data])
    /\ idx' = idx + 1
    /\ UNCHANGED <<pc, uploaded_images, results, batch_results, stdout, trigger, runs>>
    /\ UNCHANGED ocr_state

FinishGenerate ==
    /\ pc = "generate"
    /\ idx = Len(batch_results)
    /\ idx' = 0
    /\ pc' = "idle"
    /\ UNCHANGED <<uploaded_images, results, batch_results, stdout, trigger, archive, runs>>
    /\ UNCHANGED ocr_state

NextApp ==
    \/ Upload
    \/ ClickRead
    \/ ReadImage
    \/ FinishRead
    \/ EditField
    \/ ClickGenerate
    \/ ReviewItem
    \/ FinishReview
    \/ GenerateDocx
    \/ FinishGenerate

SpecApp == InitApp /\ [][NextApp]_vars

\* where the last batch read starts in what was printed
LastStart == Max({0} \cup {i \in 1..Len(stdout) : stdout[i][1] = "start"})

\* the names printed by the read loop since then, by the kind of the line
Printed(kind) ==
    LET since == SubSeq(stdout, LastStart + 1, Len(stdout))
        lines == SelectSeq(since, LAMBDA line : line[1] = kind)
    IN  [i \in 1..Len(lines) |-> lines[i][2]]

NamesOf(files) == [i \in 1..Len(files) |-> files[i].name]

Fails(file) == IsException(run_qr_on_upload(file))

\* the records of the files that can be read, in the order of the files
RecordsOf(files) ==
    LET readable == SelectSeq(files, LAMBDA file : ~Fails(file))
    IN  [i \in 1..Len(readable) |->
            [image_name |-> readable[i].name,
             data |-> apply_template_aliases(run_qr_on_upload(readable[i]))]]

\* C13: the batch read loop attempts every uploaded image once, in upload
\* order, whether or not an earlier image raised an error; after the loop
\* batch_results holds the records of the images that were read, in upload
\* order, and an image that failed contributes no record.
C13_EveryImageAttemptedOnce ==
    /\ pc = "read" =>
          /\ Printed("processing") = NamesOf(SubSeq(uploaded_images, 1, idx))
          /\ results = RecordsOf(SubSeq(uploaded_images, 1, idx))
    /\ (trigger.kind = "read" /\ pc # "read") =>
          /\ Printed("processing") = NamesOf(uploaded_images)
          /\ Printed("failed") = NamesOf(SelectSeq(uploaded_images, Fails))
          /\ batch_results = RecordsOf(uploaded_images)

\* the first image failed and the second was read
C13_Witness ==
    /\ trigger.kind = "read"
    /\ pc # "read"
    /\ Len(uploaded_images) = 2
    /\ Fails(uploaded_images[1])
    /\ ~Fails(uploaded_images[2])
    /\ Len(batch_results) = 1
    /\ batch_results[1].image_name = uploaded_images[2].name
    /\ Printed("processing") = NamesOf(uploaded_images)

AliasesFresh(record) == \A pair \in ClaimedAliases : record[pair[1]] = record[pair[2]]

\* C14: whatever the user edited before, a record that is handed to the
\* template holds in every alias key the value of its canonical field.
C14_AliasesFreshAtTemplating ==
    /\ \A i \in 1..Len(archive) : AliasesFresh(archive[i].context)
    /\ pc = "generate" => \A i \in 1..Len(batch_results) : AliasesFresh(batch_results[i].data)

\* a record whose name the user changed went into the archive
C14_Witness ==
    /\ pc = "idle"
    /\ trigger.kind = "generate"
    /\ archive # <<>>
    /\ archive[1].context.fullname = <<"L", "a!", "o">>
    /\ archive[1].context.ho_va_ten = <<"L", "a!", "o">>
    /\ archive[1].context.full_name = <<"L", "a!", "o">>

----------------------------------------------------------------------------
(* The residence.                                                          *)

MaxResidenceLines == 3

\* the residence label without and with a value, a place of origin, a place
\* that differs from that value in case only, another place, a line with a
\* stop label and a date
ResidenceLines ==
    { <<"N", "o*", "i", " ", "t", "h", "u*", "o*!", "n", "g", " ", "t",
        "r", "u'", ":">>,
      <<"N", "o*", "i", " ", "t", "h", "u*", "o*!", "n", "g", " ", "t",
        "r", "u'", ":", " ", "H", "a!", " ", "N", "o.^", "i">>,
      <<"Q", "u", "e^", " ", "q", "u", "a'", "n", ":", " ", "T", "a",
        "m", " ", "K", "y!", ",", " ", "Q", "u", "a?", "n", "g", " ",
        "N", "a", "m">>,
      <<"h", "a!", " ", "n", "o.^", "i">>,
      <<"T", "a", "m", " ", "K", "y!">>,
      <<"Q", "u", "o^'", "c", " ", "t", "i.", "c", "h", ":", " ", "V",
        "i", "e.^", "t", " ", "N", "a", "m">>,
      <<"0", "1", "/", "0", "7", "/", "2", "0", "0", "5">> }

InitResidence == \E items \in SeqsUpTo(ResidenceLines, MaxResidenceLines) : ParseOf(FALSE, items)

SpecResidence == InitResidence /\ [][NextParse]_vars

\* the residence the residence label yields, with its prefix stripped
RecoveredResidence == Residence(Lines, NormalizedLines)

\* C15: when no residence is recovered, also when stripping the prefix left
\* nothing of it, residence is the place of origin; so residence is empty
\* only if place_of_origin is, and noi_thuong_tru holds the same value.
C15_ResidenceFallsBackToOrigin ==
    pc = "parsed" =>
        /\ RecoveredResidence = <<>> => data.residence = data.place_of_origin
        /\ RecoveredResidence # <<>> => data.residence = RecoveredResidence
        /\ data.residence = <<>> => data.place_of_origin = <<>>
        /\ data.noi_thuong_tru = data.residence

\* a residence label that yields nothing, and a place of origin
C15_Witness ==
    /\ pc = "parsed"
    /\ FirstLabelled(NormalizedLines, residence_labels) > 0
    /\ RecoveredResidence = <<>>
    /\ data.place_of_origin # <<>>
    /\ data.residence = data.place_of_origin
    /\ data.noi_thuong_tru = data.place_of_origin

\* the comma-separated parts of the residence, trimmed
ResidenceParts == PartsOf(data.residence)

\* C17: the residence that parse_data returns never holds two
\* comma-separated parts whose normalized forms are equal.
C17_ResidenceDeduplicated ==
    pc = "parsed" =>
        \A i, j \in 1..Len(ResidenceParts) :
            i # j => _normalize_text(ResidenceParts[i]) # _normalize_text(ResidenceParts[j])

----------------------------------------------------------------------------
(* The lines gathered for a place: a label line, then value lines, one of  *)
(* which may be a line that ends or is skipped by the loop.                *)

MaxValueLines == 7

PlaceValues ==
    << <<"H", "o!", "a", " ", "N", "a", "m">>,
       <<"T", "a^", "n", " ", "T", "h", "a.", "n", "h">>,
       <<"T", "a", "m", " ", "K", "y!">>,
       <<"Q", "u", "a?", "n", "g", " ", "N", "a", "m">>,
       <<"D-", "a!", " ", "N", "a(~", "n", "g">>,
       <<"T", "h", "a", "n", "h", " ", "H", "o'", "a">>,
       <<"S", "o*", "n", " ", "T", "r", "a!">>,
       <<"H", "a!", " ", "N", "o.^", "i">> >>

\* the labels of the two places, without and with a value on the line
PlaceHeads ==
    { <<"Q", "u", "e^", " ", "q", "u", "a'", "n", ":">>,
       <<"Q", "u", "e^", " ", "q", "u", "a'", "n", ":", " ", "N", "u'", "i", " ", "T", "h", "a!", "n", "h">>,
       <<"N", "o*", "i", " ", "t", "h", "u*", "o*!", "n", "g", " ", "t", "r", "u'", ":">>,
       <<"N", "o*", "i", " ", "t", "h", "u*", "o*!", "n", "g", " ", "t", "r", "u'", ":", " ", "N", "u'", "i", " ", "T", "h", "a!", "n", "h">> }

\* a line with a stop label of both places, a date and a noise word
OtherLines ==
    { <<"Q", "u", "o^'", "c", " ", "t", "i.", "c", "h", ":", " ", "V", "i", "e.^", "t", " ", "N", "a", "m">>,
       <<"0", "1", "/", "0", "7", "/", "2", "0", "0", "5">>,
       <<"Q", "u", "a.^", "n">> }

ValueLines(n) == [i \in 1..n |-> PlaceValues[((i - 1) % Len(PlaceValues)) + 1]]

InsertAt(s, k, line) == SubSeq(s, 1, k - 1) \o <<line>> \o SubSeq(s, k, Len(s))

InitAccumulate ==
    \E head \in PlaceHeads, n \in 0..MaxValueLines :
        \/ ParseOf(FALSE, <<head>> \o ValueLines(n))
        \/ \E k \in 1..(n + 1), other \in OtherLines :
               ParseOf(FALSE, <<head>> \o InsertAt(ValueLines(n), k, other))

SpecAccumulate == InitAccumulate /\ [][NextParse]_vars

\* the labels, the stop labels and the limit of the place whose label is on
\* the first line
OfOrigin == _line_has_any_label(NormalizedLines[1], origin_labels)

PlaceLabels == IF OfOrigin THEN origin_labels ELSE residence_labels

PlaceStops == IF OfOrigin THEN stop_labels ELSE residence_stop_labels

PlaceLimit == IF OfOrigin THEN MaxOriginParts ELSE MaxAddressParts

\* the first line after the label line that holds a stop label or a date,
\* else the line after the last
StoppingLine ==
    Min({Len(Lines) + 1} \cup
        {j \in 2..Len(Lines) : \/ _line_has_any_label(NormalizedLines[j], PlaceStops)
                               \/ HasDate(Lines[j])})

IsPart(value) == value # <<>> /\ ~_is_noise_or_label(value)

\* the value on the label line and the lines before the stopping line, as
\* far as they are parts, in the order of the lines
PartsBeforeStop ==
    SelectSeq(<<_clean_value(_extract_after_label(Lines[1], PlaceLabels))>>
              \o [j \in 1..(StoppingLine - 2) |->
                     _clean_value(Strip(Lines[j + 1], {" ", ",", ".", "-"}))],
              IsPart)

ExpectedParts == SubSeq(PartsBeforeStop, 1, Min({Len(PartsBeforeStop), PlaceLimit}))

CollectedParts == GatherParts(Lines, NormalizedLines, 1, PlaceLabels, PlaceStops, PlaceLimit)

\* C16: the loop gathers the lines after the label line in order and stops
\* at the first line with a stop label of the field, the first line with a
\* date, or when it holds 5 parts (6 for the residence); no line at or after
\* that point adds text to the value, and there are never more than 5 (6)
\* parts.
C16_AccumulationStops ==
    pc = "parsed" =>
        /\ Len(CollectedParts) <= PlaceLimit
        /\ CollectedParts = ExpectedParts
        /\ \E value \in {_clean_value(JoinParts(ExpectedParts))} :
              IF OfOrigin
              THEN data.place_of_origin \in {<<>>, _dedupe_place_text(value)}
              ELSE data.residence = Strip(StripResidencePrefix(value), TrimChars)

\* seven lines follow the residence label and six of them are the value
C16_Witness ==
    /\ pc = "parsed"
    /\ ~OfOrigin
    /\ Len(PartsBeforeStop) = MaxAddressParts + 1
    /\ data.residence = JoinParts(SubSeq(PartsBeforeStop, 1, MaxAddressParts))

----------------------------------------------------------------------------
(* The value by a label: _extract_value_from_lines.                        *)

MaxLabelledLines == 3

\* two labels without a value and one with its value; a value, a noise word,
\* a text of two letters and a blocked phrase
LabelledLines ==
    { <<"Q", "u", "o^'", "c", " ", "t", "i.", "c", "h", ":">>,
      <<"Q", "u", "o^'", "c", " ", "t", "i.", "c", "h", ":", " ", "L",
        "a!", "o">>,
      <<"G", "i", "o*'", "i", " ", "t", "i'", "n", "h", ":">>,
      <<"L", "a!", "o">>,
      <<"Q", "u", "a.^", "n">>,
      <<"A", "B">>,
      <<"C", "o.^", "n", "g", " ", "h", "o!", "a">> }

InitValue ==
    /\ pc = "value"
    /\ \E lines \in SeqsUpTo(LabelledLines, MaxLabelledLines) :
          \E labels \in {nationality_labels, sex_labels} :
              arg = [lines |-> lines, labels |-> labels]
    /\ ret = <<>>
    /\ ret2 = <<>>
    /\ Idle

ExtractValueFromLines ==
    /\ pc = "value"
    /\ ret' = _extract_value_from_lines(arg.lines,
                                        [i \in 1..Len(arg.lines) |->
                                            _normalize_text(arg.lines[i])],
                                        arg.labels)
    /\ pc' = "valued"
    /\ UNCHANGED <<arg, ret2, observations, merged, text_list, data>>
    /\ UNCHANGED app_state

NextValue == ExtractValueFromLines

SpecValue == InitValue /\ [][NextValue]_vars

\* the first line that holds one of the labels
LabelLine ==
    FirstLabelled([i \in 1..Len(arg.lines) |-> _normalize_text(arg.lines[i])], arg.labels)

\* the label line has no value, a line follows it, and what is returned is
\* the cleaned form of that line
FromFollowingLine ==
    /\ LabelLine > 0
    /\ LabelLine < Len(arg.lines)
    /\ _extract_after_label(arg.lines[LabelLine], arg.labels) = <<>>
    /\ ret # <<>>
    /\ ret = _clean_value(arg.lines[LabelLine + 1])

\* C18: when the label line has no value of its own, the line that follows
\* it is returned only if its cleaned form is not what _is_noise_or_label
\* classifies as a label or boilerplate.
C18_FollowingLineIsNotNoise ==
    (pc = "valued" /\ FromFollowingLine) => ~_is_noise_or_label(ret)

----------------------------------------------------------------------------
(* The loop of _strip_known_labels, statement by statement.                *)

MaxPieces == 3

\* what a value is put together from: two label phrases with the delimiter
\* behind them, two without, the delimiters of the pattern, a value, a
\* word that starts like a label, digits and a blank
StripPieces ==
    { <<"H", "o.", " ", "t", "e^", "n", ":">>,
      <<"Q", "u", "o^'", "c", " ", "t", "i.", "c", "h", " ", "-", " ">>,
      <<"N", "o", ".">>,
      <<"s", "o">>,
      <<":">>,
      <<"/">>,
      <<"L", "a!", "o">>,
      <<"S", "o*", "n">>,
      <<"1", "2">>,
      <<" ">> }

\* re.sub(label_pattern, '', normalized_value, count=1).strip(" ;,:.-"): the
\* first alternative that matches, the \.? of `no`, and \s*(?:/\s*)?
StripLabel(normalized_value) ==
    Only({Strip(SubSeq(normalized_value,
                       IF after_ws <= Len(normalized_value) /\ normalized_value[after_ws] = "/"
                       THEN SkipWs(normalized_value, after_ws + 1)
                       ELSE after_ws,
                       Len(normalized_value)), TrimChars) :
          after_ws \in
              {SkipWs(normalized_value,
                      IF /\ KnownLabelWords[k] = << <<"n", "o">> >>
                         /\ MatchAt(<<".">>, normalized_value, 3)
                      THEN 4
                      ELSE MatchWordsAt(normalized_value, 1, KnownLabelWords[k])) :
               k \in {Min({j \in 1..Len(KnownLabelWords) :
                              MatchWordsAt(normalized_value, 1, KnownLabelWords[j]) > 0})}}})

InitStrip ==
    /\ pc = "strip"
    /\ \E pieces \in SeqsUpTo(StripPieces, MaxPieces) : arg = Flatten(pieces)
    /\ ret = <<>>
    /\ ret2 = <<>>
    /\ Idle

\* lines 29-42: ret is the local `value`, ret2 the local `normalized_value`
StripEnter ==
    /\ pc = "strip"
    /\ IF arg = <<>>
       THEN /\ pc' = "stripped"
            /\ ret' = <<>>
            /\ ret2' = ret2
       ELSE \E collapsed \in {CollapseWs(arg)} :
                \E trimmed \in {Strip(collapsed, TrimChars)} :
                    \E value \in {LStrip(trimmed, NonLetterChars)} :
                        /\ pc' = "while"
                        /\ ret' = value
                        /\ ret2' = _normalize_text(value)
    /\ UNCHANGED <<arg, observations, merged, text_list, data>>
    /\ UNCHANGED app_state

\* line 43: the test of the while loop
WhileTest ==
    /\ pc = "while"
    /\ pc' = IF StartsWithLabel(ret2) THEN "body" ELSE "stripped"
    /\ UNCHANGED <<arg, ret, ret2, observations, merged, text_list, data>>
    /\ UNCHANGED app_state

\* lines 44-48: one turn of the loop, left by `break` when the value is empty
LoopBody ==
    /\ pc = "body"
    /\ \E rest \in {DropThroughDelimiter(ret)} :
          \E value \in {Strip(rest, TrimChars)} :
              /\ ret' = value
              /\ IF value = <<>>
                 THEN /\ pc' = "stripped"
                      /\ ret2' = StripLabel(ret2)
                 ELSE /\ pc' = "while"
                      /\ ret2' = _normalize_text(value)
    /\ UNCHANGED <<arg, observations, merged, text_list, data>>
    /\ UNCHANGED app_state

NextStrip == StripEnter \/ WhileTest \/ LoopBody

SpecStrip == InitStrip /\ [][NextStrip]_vars

\* a call that has started goes on to its next statement
FairSpecStrip == SpecStrip /\ WF_vars(NextStrip)

\* the value the loop starts with
EnteredValue == LStrip(Strip(CollapseWs(arg), TrimChars), NonLetterChars)

\* C21: the loop of _strip_known_labels terminates for every input: the
\* call returns, every turn of the loop makes the value strictly shorter,
\* and the value returned is empty or its normalized form does not begin
\* with a known label phrase.
C21_StripLoopTerminates ==
    /\ <>(pc = "stripped")
    /\ [][pc = "body" => Len(ret') < Len(ret)]_vars
    /\ [](pc = "stripped" => (ret = <<>> \/ ~StartsWithLabel(_normalize_text(ret))))

\* a call that has returned a value after two turns of the loop
C21_Witness ==
    /\ pc = "stripped"
    /\ ret # <<>>
    /\ StartsWithLabel(_normalize_text(EnteredValue))
    /\ StartsWithLabel(_normalize_text(Strip(DropThroughDelimiter(EnteredValue), TrimChars)))
    /\ ret = Strip(DropThroughDelimiter(Strip(DropThroughDelimiter(EnteredValue), TrimChars)), TrimChars)
=============================================================================
